---- MODULE Spec2Model ----
(***************************************************************************)
(* A model of memhashd: the local shard (hash store, TTL heap, refresh     *)
(* timer, typed requests) and the cluster server that routes requests      *)
(* over a partition ring and forwards them to peers as JSON.               *)
(*                                                                         *)
(* Time is a natural number; 0 is the zero time.Time.  Strings that the    *)
(* program inspects byte by byte (keys, addresses) are sequences of byte   *)
(* values.                                                                 *)
(***************************************************************************)
EXTENDS Integers, Sequences, FiniteSets, TLC

\* ------------------------------------------------------------------------
\* Bounds of the model.
\* ------------------------------------------------------------------------
\* Store requests are made up to time MaxTime, MaxStores of them in all, with
\* expire times up to MaxExpire.  The clock runs on until every record stored
\* has passed its expiry.
MaxTime == 3
MaxStores == 2
MaxStoresTTL == 3
MaxExpire == 2
MaxClock == MaxTime + MaxExpire + 1

\* The cluster: partitions of the ring, retries of a dial, calls of Do made
\* by clients and how many of them are in progress at one time.
NumPartitions == 4
NumRetries == 0
MaxCalls == 2
MaxActive == 1

\* The started cluster: calls of Do made by clients, how many of them are in
\* progress at one time, and the processes and servers that end.
MaxDoCalls == 2
MaxDoActive == 2
MaxFaults == 1

\* The join of one server: the greatest Config.NumRetries it is started with.
MaxRetries == 3

\* Keys "a" and "b" as byte sequences.
KeySet == {<<97>>, <<98>>}
ExpireSet == 0..MaxExpire

\* ------------------------------------------------------------------------
\* Values of type interface{}: a Go type tag and a payload.  The elements of
\* an []interface{} and the values of a map[string]interface{} are values
\* themselves.
\* ------------------------------------------------------------------------
Nil == [t |-> "nil", v |-> <<>>]
IntVal(n) == [t |-> "int", v |-> <<n>>]
FloatVal(n) == [t |-> "float64", v |-> <<n>>]
StrVal(s) == [t |-> "string", v |-> s]
IntSlice(s) == [t |-> "[]int", v |-> s]
AnySlice(s) == [t |-> "[]interface{}", v |-> s]
StrSlice(s) == [t |-> "[]string", v |-> s]
IntMap(m) == [t |-> "map[int]int", v |-> m]
AnyMap(m) == [t |-> "map[string]interface{}", v |-> m]

\* fmt's %v / %d of a one-digit number, and %v of a value.
Digit(n) == <<48 + n>>
Sprint(x) ==
  CASE x.t = "int" -> Digit(x.v[1])
    [] x.t = "float64" -> Digit(x.v[1])
    [] x.t = "string" -> x.v
    [] OTHER -> <<>>

\* encoding/json: a value of type interface{} after it was written to the
\* wire and read back into an interface{}.  Numbers come back as float64,
\* slices as []interface{}, maps as map[string]interface{} with the keys
\* printed.
JSONScalar(x) ==
  CASE x.t = "int" -> FloatVal(x.v[1])
    [] OTHER -> x

JSONValue(x) ==
  CASE x.t = "[]int" -> AnySlice([i \in 1..Len(x.v) |-> FloatVal(x.v[i])])
    [] x.t = "[]string" -> AnySlice([i \in 1..Len(x.v) |-> StrVal(x.v[i])])
    [] x.t = "[]interface{}" -> AnySlice([i \in 1..Len(x.v) |-> JSONScalar(x.v[i])])
    [] x.t = "map[int]int" ->
         AnyMap([i \in 1..Len(x.v) |-> <<Digit(x.v[i][1]), FloatVal(x.v[i][2])>>])
    [] x.t = "map[string]interface{}" ->
         AnyMap([i \in 1..Len(x.v) |-> <<x.v[i][1], JSONScalar(x.v[i][2])>>])
    [] OTHER -> JSONScalar(x)

\* ------------------------------------------------------------------------
\* hash.Record and hash.Meta
\* ------------------------------------------------------------------------
MetaZero == [Index |-> 0, ExpireTime |-> 0, AccessedAt |-> 0,
             CreatedAt |-> 0, UpdatedAt |-> 0]
RecordZero == [Meta |-> MetaZero, Data |-> Nil]

IsPermanent(r) == r.Meta.ExpireTime <= 0

\* IsExpired with the age measured from the access time.
IsExpiredSinceAccess(r, t) ==
  IF IsPermanent(r) THEN FALSE
  ELSE (t - r.Meta.AccessedAt) > r.Meta.ExpireTime

IsExpired(r, t) ==
  IF IsPermanent(r) THEN FALSE
  ELSE (t - r.Meta.CreatedAt) > r.Meta.ExpireTime

ExpiresAt(r) == r.Meta.CreatedAt + r.Meta.ExpireTime

\* ------------------------------------------------------------------------
\* unsafeHash: records is a function whose domain is the set of stored keys.
\* ------------------------------------------------------------------------
NoRecords == [k \in {} |-> RecordZero]

newUnsafeHash == [records |-> NoRecords, keys |-> <<>>, dirty |-> FALSE]

Put(m, key, r) == [k \in (DOMAIN m) \cup {key} |-> IF k = key THEN r ELSE m[k]]
Drop(m, key) == [k \in (DOMAIN m) \ {key} |-> m[k]]

\* All orders in which a range over the map can visit its keys.
Orders(S) == {s \in [1..Cardinality(S) -> S] : \A i, j \in 1..Cardinality(S) : i # j => s[i] # s[j]}

\* A Keys that never rebuilds its list.
hKeysStale(h, ord) == [h |-> h, keys |-> h.keys]

\* Keys: ord is the order in which the map is ranged over on a rebuild.
hKeys(h, ord) ==
  IF ~h.dirty THEN [h |-> h, keys |-> h.keys]
  ELSE [h |-> [h EXCEPT !.keys = ord, !.dirty = FALSE], keys |-> ord]

\* A Load that returns the record as it is stored.
hLoadUnstamped(h, key, t) ==
  IF key \notin DOMAIN h.records THEN [rec |-> RecordZero, ok |-> FALSE]
  ELSE [rec |-> h.records[key], ok |-> TRUE]

\* Load: the access time is set in the returned copy.
hLoad(h, key, t) ==
  IF key \notin DOMAIN h.records THEN [rec |-> RecordZero, ok |-> FALSE]
  ELSE [rec |-> [h.records[key] EXCEPT !.Meta.AccessedAt = t], ok |-> TRUE]

\* Store: t1 is the clock read for CreatedAt, t2 the one for UpdatedAt.
\* A Store that gives the record a new CreatedAt every time.
hStoreRenews(h, key, rec, t1, t2) ==
  LET ok == key \in DOMAIN h.records
      prevrec == IF ok THEN h.records[key] ELSE RecordZero
      newrec == [Meta |-> [prevrec.Meta EXCEPT !.Index = @ + 1,
                                               !.CreatedAt = t1,
                                               !.UpdatedAt = t2,
                                               !.ExpireTime = rec.Meta.ExpireTime],
                 Data |-> rec.Data]
  IN [h |-> [records |-> Put(h.records, key, newrec),
             keys |-> IF ~h.dirty THEN Append(h.keys, key) ELSE h.keys,
             dirty |-> h.dirty],
      rec |-> newrec]

hStore(h, key, rec, t1, t2) ==
  LET ok == key \in DOMAIN h.records
      prevrec == IF ok THEN h.records[key]
                 ELSE [RecordZero EXCEPT !.Meta.CreatedAt = t1]
      newrec == [Meta |-> [prevrec.Meta EXCEPT !.Index = @ + 1,
                                               !.UpdatedAt = t2,
                                               !.ExpireTime = rec.Meta.ExpireTime],
                 Data |-> rec.Data]
  IN [h |-> [records |-> Put(h.records, key, newrec),
             keys |-> IF ~h.dirty THEN Append(h.keys, key) ELSE h.keys,
             dirty |-> h.dirty],
      rec |-> newrec]

\* A Delete that marks the key list and keeps the record.
hDeleteKeepsRecord(h, key) == [h EXCEPT !.dirty = TRUE]

hDelete(h, key) ==
  [h EXCEPT !.records = Drop(h.records, key),
            !.dirty = IF key \in DOMAIN h.records THEN TRUE ELSE h.dirty]

\* ------------------------------------------------------------------------
\* timeHeap driven through container/heap: arr[1] is the top.
\* ------------------------------------------------------------------------
Less(arr, i, j) == arr[i].Time < arr[j].Time

Swap(arr, i, j) == [arr EXCEPT ![i] = arr[j], ![j] = arr[i]]

\* container/heap up(j), on 1-based positions: the parent of j is j \div 2.
RECURSIVE up(_, _)
up(arr, j) ==
  IF j = 1 \/ ~Less(arr, j, j \div 2) THEN arr
  ELSE up(Swap(arr, j, j \div 2), j \div 2)

\* heap.Push(h, x): timeHeap.Push appends, then up(n-1).
heapPush(arr, x) == up(Append(arr, x), Len(arr) + 1)

\* timeHeap.Peek: the first element, "nil" is shown by ok = FALSE.
Peek(arr) ==
  IF Len(arr) # 0 THEN [ok |-> TRUE, elem |-> arr[1]]
  ELSE [ok |-> FALSE, elem |-> [Time |-> 0, Data |-> <<>>]]

\* timeHeap.Pop: drops the last element of the array.
Pop(arr) == SubSeq(arr, 1, Len(arr) - 1)

\* A pop that takes what timeHeap.Pop alone takes.
heapPopLast(arr) == [arr |-> Pop(arr), val |-> arr[Len(arr)]]

\* heap.Pop(h): Swap(0, n-1), down(0, n-1), then timeHeap.Pop returns the
\* last element; on 1-based positions the children of i are 2i and 2i + 1.
heapPop(arr) ==
  LET RECURSIVE down(_, _, _)
      down(a, i, n) ==
        LET j1 == 2 * i
            j == IF j1 + 1 <= n /\ Less(a, j1 + 1, j1) THEN j1 + 1 ELSE j1
        IN IF j1 > n THEN a
           ELSE IF ~Less(a, j, i) THEN a
           ELSE down(Swap(a, i, j), j, n)
      d == down(Swap(arr, 1, Len(arr)), 1, Len(arr) - 1)
  IN [arr |-> Pop(d), val |-> d[Len(d)]]

\* ------------------------------------------------------------------------
\* refreshTimer.  timer is "nil" (never armed), "active" (armed, not yet
\* fired) or "fired" (its function has been started).  The timer fires at
\* cutoff and then runs its function fn; the store passes the closure that
\* calls deleteAfter(c), which is shown by the time c.
\* ------------------------------------------------------------------------
newRefreshTimer == [timer |-> "nil", cutoff |-> 0, fn |-> 0]

\* AfterFunc(t, fn).  blocked: Stop() returned false and the caller waits on
\* the channel of a timer made by time.AfterFunc, which is never written.
AfterFunc(rt, t, fn) ==
  IF rt.cutoff # 0 /\ rt.cutoff < t THEN [rt |-> rt, blocked |-> FALSE]
  ELSE IF rt.timer = "fired" THEN [rt |-> rt, blocked |-> TRUE]
  ELSE [rt |-> [timer |-> "active", cutoff |-> t, fn |-> fn],
        blocked |-> FALSE]

\* ------------------------------------------------------------------------
\* store: hash map, expiration heap and timer behind worldMu.  blocked
\* means a goroutine waits forever while it holds worldMu.
\* ------------------------------------------------------------------------
newStore == [hashMap |-> newUnsafeHash, expireHeap |-> <<>>,
             expireTimer |-> newRefreshTimer, blocked |-> FALSE]

sKeys(s, ord) ==
  LET r == hKeys(s.hashMap, ord)
  IN [s |-> [s EXCEPT !.hashMap = r.h], keys |-> r.keys]

\* A Load that reports an expired record not-present and leaves it stored.
sLoadKeepsExpired(s, key, t) ==
  LET r == hLoad(s.hashMap, key, t)
  IN IF ~r.ok THEN [s |-> s, rec |-> r.rec, ok |-> FALSE]
     ELSE IF IsExpired(r.rec, t) THEN [s |-> s, rec |-> RecordZero, ok |-> FALSE]
     ELSE [s |-> s, rec |-> r.rec, ok |-> TRUE]

sLoad(s, key, t) ==
  LET r == hLoad(s.hashMap, key, t)
  IN IF ~r.ok THEN [s |-> s, rec |-> r.rec, ok |-> FALSE]
     ELSE IF IsExpired(r.rec, t)
       THEN [s |-> [s EXCEPT !.hashMap = hDelete(s.hashMap, key)],
             rec |-> RecordZero, ok |-> FALSE]
     ELSE [s |-> s, rec |-> r.rec, ok |-> TRUE]

\* Store: done = FALSE when the call never returns.
\* A Store that schedules the expiry from the time of the update.
sStoreFromUpdate(s, key, rec, t1, t2) ==
  LET r == hStore(s.hashMap, key, rec, t1, t2)
      s1 == [s EXCEPT !.hashMap = r.h]
  IN IF IsPermanent(r.rec) THEN [s |-> s1, rec |-> r.rec, done |-> TRUE]
     ELSE LET cutoff == r.rec.Meta.UpdatedAt + r.rec.Meta.ExpireTime
              arr == heapPush(s.expireHeap, [Time |-> cutoff, Data |-> key])
              a == AfterFunc(s.expireTimer, cutoff, cutoff)
          IN [s |-> [s1 EXCEPT !.expireHeap = arr, !.expireTimer = a.rt,
                               !.blocked = a.blocked],
              rec |-> r.rec, done |-> ~a.blocked]

sStore(s, key, rec, t1, t2) ==
  LET r == hStore(s.hashMap, key, rec, t1, t2)
      s1 == [s EXCEPT !.hashMap = r.h]
  IN IF IsPermanent(r.rec) THEN [s |-> s1, rec |-> r.rec, done |-> TRUE]
     ELSE LET cutoff == ExpiresAt(r.rec)
              arr == heapPush(s.expireHeap, [Time |-> cutoff, Data |-> key])
              a == AfterFunc(s.expireTimer, cutoff, cutoff)
          IN [s |-> [s1 EXCEPT !.expireHeap = arr, !.expireTimer = a.rt,
                               !.blocked = a.blocked],
              rec |-> r.rec, done |-> ~a.blocked]

sDelete(s, key) == [s EXCEPT !.hashMap = hDelete(s.hashMap, key)]

\* DeleteExpiredKeys(cutoff): the loop of peek, delete and pop.
RECURSIVE DeleteExpiredKeys(_, _)
DeleteExpiredKeys(s, cutoff) ==
  LET next == Peek(s.expireHeap)
  IN IF ~next.ok \/ next.elem.Time > cutoff THEN s
     ELSE DeleteExpiredKeys(
            [s EXCEPT !.hashMap = hDelete(s.hashMap, next.elem.Data),
                      !.expireHeap = Pop(s.expireHeap)], cutoff)

\* The second half of deleteAfter: re-arm the timer at the top of the heap.
deleteAfterRearm(s) ==
  IF Len(s.expireHeap) = 0 THEN s
  ELSE LET elem == Peek(s.expireHeap).elem
           a == AfterFunc(s.expireTimer, elem.Time, elem.Time)
       IN [s EXCEPT !.expireTimer = a.rt, !.blocked = a.blocked]

\* ------------------------------------------------------------------------
\* Errors and typed requests.  An error is its Go type and its text; the
\* text is the format with the formatted argument.
\* ------------------------------------------------------------------------
NoText == [msg |-> "", arg |-> <<>>]
NoError == [kind |-> "nil", text |-> NoText]
ErrMissing(msg, arg) == [kind |-> "ErrMissing", text |-> [msg |-> msg, arg |-> arg]]
ErrConflict(msg, arg) == [kind |-> "ErrConflict", text |-> [msg |-> msg, arg |-> arg]]
ErrInternal(msg, arg) == [kind |-> "ErrInternal", text |-> [msg |-> msg, arg |-> arg]]
\* A run-time panic that nothing recovers.
Panic == [kind |-> "panic", text |-> NoText]

RequestKeys == [Action |-> "keys", Key |-> <<>>, Data |-> Nil,
                ExpireTime |-> 0, Index |-> 0, Item |-> Nil]
RequestStore(key, data, d) == [RequestKeys EXCEPT !.Action = "store",
                                 !.Key = key, !.Data = data, !.ExpireTime = d]
RequestLoad(key) == [RequestKeys EXCEPT !.Action = "load", !.Key = key]
RequestDelete(key) == [RequestKeys EXCEPT !.Action = "delete", !.Key = key]
RequestListIndex(key, i) == [RequestKeys EXCEPT !.Action = "index",
                                                 !.Key = key, !.Index = i]
RequestDictItem(key, item) == [RequestKeys EXCEPT !.Action = "item",
                                                   !.Key = key, !.Item = item]

\* Request.Hash(): empty for keys, the key for the rest.
Hash(req) == IF req.Action = "keys" THEN <<>> ELSE req.Key

\* reflect.TypeOf(x).Kind()
IsSlice(x) == x.t \in {"[]int", "[]interface{}", "[]string"}
IsMap(x) == x.t \in {"map[int]int", "map[string]interface{}"}

\* slice.Index(i).Interface(), i counted from 0.
SliceIndex(x, i) ==
  CASE x.t = "[]int" -> IntVal(x.v[i + 1])
    [] x.t = "[]interface{}" -> x.v[i + 1]
    [] OTHER -> StrVal(x.v[i + 1])

\* Whether reflect accepts a key of this type for the map.
KeyAssignable(m, key) ==
  \/ m.t = "map[int]int" /\ key.t = "int"
  \/ m.t = "map[string]interface{}" /\ key.t = "string"

\* The pairs of the map whose key is the given one.
MapHits(m, key) ==
  {i \in 1..Len(m.v) : m.v[i][1] = (IF m.t = "map[int]int" THEN key.v[1] ELSE key.v)}

MapValue(m, i) ==
  IF m.t = "map[int]int" THEN IntVal(m.v[i][2]) ELSE m.v[i][2]

ProcessKeys(r, s, ord) ==
  LET k == sKeys(s, ord)
  IN [s |-> k.s, rec |-> [RecordZero EXCEPT !.Data = StrSlice(k.keys)],
      err |-> NoError, done |-> TRUE]

ProcessStore(r, s, t1, t2) ==
  LET st == sStore(s, r.Key, [RecordZero EXCEPT !.Data = r.Data,
                                !.Meta.ExpireTime = r.ExpireTime], t1, t2)
  IN [s |-> st.s, rec |-> st.rec, err |-> NoError, done |-> st.done]

ProcessLoad(r, s, t) ==
  LET l == sLoad(s, r.Key, t)
  IN IF ~l.ok
       THEN [s |-> l.s, rec |-> RecordZero,
             err |-> ErrMissing("%s does not exist", r.Key), done |-> TRUE]
     ELSE [s |-> l.s, rec |-> l.rec, err |-> NoError, done |-> TRUE]

ProcessDelete(r, s) ==
  [s |-> sDelete(s, r.Key), rec |-> RecordZero, err |-> NoError, done |-> TRUE]

\* A ListIndex that leaves the element it returns in place of the Data.
ProcessListIndexInPlace(r, s, t) ==
  LET l == sLoad(s, r.Key, t)
      fail(e) == [s |-> l.s, rec |-> RecordZero, err |-> e, done |-> TRUE]
  IN IF ~l.ok THEN fail(ErrMissing("%s does not exist", r.Key))
     ELSE IF l.rec.Data.t = "nil" THEN fail(Panic)
     ELSE IF IsSlice(l.rec.Data)
       THEN IF Len(l.rec.Data.v) <= r.Index
              THEN fail(ErrConflict("position %d is out of range", Digit(r.Index)))
            ELSE [s |-> [l.s EXCEPT !.hashMap.records[r.Key].Data =
                                      SliceIndex(l.rec.Data, r.Index)],
                  rec |-> [l.rec EXCEPT !.Data = SliceIndex(l.rec.Data, r.Index)],
                  err |-> NoError, done |-> TRUE]
     ELSE fail(ErrConflict("%s is not a list", r.Key))

ProcessListIndex(r, s, t) ==
  LET l == sLoad(s, r.Key, t)
      fail(e) == [s |-> l.s, rec |-> RecordZero, err |-> e, done |-> TRUE]
  IN IF ~l.ok THEN fail(ErrMissing("%s does not exist", r.Key))
     ELSE IF l.rec.Data.t = "nil" THEN fail(Panic)
     ELSE IF IsSlice(l.rec.Data)
       THEN IF Len(l.rec.Data.v) <= r.Index
              THEN fail(ErrConflict("position %d is out of range", Digit(r.Index)))
            ELSE [s |-> l.s, rec |-> [l.rec EXCEPT !.Data = SliceIndex(l.rec.Data, r.Index)],
                  err |-> NoError, done |-> TRUE]
     ELSE fail(ErrConflict("%s is not a list", r.Key))

ProcessDictItem(r, s, t) ==
  LET l == sLoad(s, r.Key, t)
      fail(e) == [s |-> l.s, rec |-> RecordZero, err |-> e, done |-> TRUE]
  IN IF ~l.ok THEN fail(ErrMissing("%s does not exist", r.Key))
     ELSE IF l.rec.Data.t = "nil" THEN fail(Panic)
     ELSE IF IsMap(l.rec.Data)
       THEN IF ~KeyAssignable(l.rec.Data, r.Item)
              THEN fail(ErrConflict("item %v is invalid", Sprint(r.Item)))
            ELSE IF MapHits(l.rec.Data, r.Item) = {}
              THEN fail(ErrInternal("unexpected value at key %v", Sprint(r.Item)))
            ELSE [s |-> l.s,
                  rec |-> [l.rec EXCEPT !.Data =
                             MapValue(l.rec.Data, CHOOSE i \in MapHits(l.rec.Data, r.Item) : TRUE)],
                  err |-> NoError, done |-> TRUE]
     ELSE fail(ErrConflict("%s is not a dictionary", r.Key))

\* store.Serve(r) = r.Process(s).  t1 and t2 are the clock reads of the
\* call in their order, ord the order of a rebuild of the key list.
Process(r, s, t1, t2, ord) ==
  CASE r.Action = "keys" -> ProcessKeys(r, s, ord)
    [] r.Action = "store" -> ProcessStore(r, s, t1, t2)
    [] r.Action = "load" -> ProcessLoad(r, s, t1)
    [] r.Action = "delete" -> ProcessDelete(r, s)
    [] r.Action = "index" -> ProcessListIndex(r, s, t1)
    [] OTHER -> ProcessDictItem(r, s, t1)

Serve(r, s, t1, t2, ord) == Process(r, s, t1, t2, ord)

\* ------------------------------------------------------------------------
\* ring: FNV checksum of hash/fnv's New32 on two 16-bit halves, and the ring
\* of virtual partitions.
\* ------------------------------------------------------------------------
offset32 == [hi |-> 33052, lo |-> 40389]

\* hash *= prime32, modulo 2^32: the prime is 2^24 + 403.
mulPrime32(h) ==
  LET p == h.lo * 403
  IN [hi |-> ((h.hi * 403) + (h.lo * 256) + (p \div 65536)) % 65536,
      lo |-> p % 65536]

RECURSIVE xorBits(_, _, _)
xorBits(a, b, n) ==
  IF n = 0 THEN 0
  ELSE (((a % 2) + (b % 2)) % 2) + 2 * xorBits(a \div 2, b \div 2, n - 1)

\* hash ^= uint32(c)
xorByte(h, c) == [h EXCEPT !.lo = xorBits(h.lo, c, 16)]

\* Write of sum32: multiply, then xor, byte by byte.
RECURSIVE fnvWrite(_, _)
fnvWrite(h, b) ==
  IF b = <<>> THEN h
  ELSE fnvWrite(xorByte(mulPrime32(h), Head(b)), Tail(b))

fnvSum32(b) == fnvWrite(offset32, b)

StringHasher(str) == fnvSum32(str)

\* h % ratio for a 32-bit h.
hashMod(h, ratio) ==
  (((h.hi % ratio) * (65536 % ratio)) + (h.lo % ratio)) % ratio

newRing(ratio) ==
  [ratio |-> ratio, virtual |-> [i \in 1..ratio |-> 0], elements |-> <<>>]

\* A repartition that leaves the partitions as they are.
repartitionStale(r) == r

repartition(r) ==
  [r EXCEPT !.virtual = [i \in 1..r.ratio |-> (i - 1) % Len(r.elements)]]

Insert(r, e) == repartition([r EXCEPT !.elements = Append(@, e)])

\* Remove: the first element with the Value of e is taken out; panic shows
\* the division by zero of repartition on a ring left without elements.
Remove(r, e) ==
  LET hits == {ii \in DOMAIN r.elements : r.elements[ii].Value = e.Value}
      first == CHOOSE ii \in hits : \A jj \in hits : ii <= jj
      elements == IF hits = {} THEN r.elements
                  ELSE SubSeq(r.elements, 1, first - 1)
                         \o SubSeq(r.elements, first + 1, Len(r.elements))
  IN IF elements = <<>>
       THEN [r |-> [r EXCEPT !.elements = elements], panic |-> TRUE]
     ELSE [r |-> repartition([r EXCEPT !.elements = elements]),
           panic |-> FALSE]

\* Find; it panics on a ring without elements.
Find(r, h) == r.elements[r.virtual[hashMod(h, r.ratio) + 1] + 1]

\* ------------------------------------------------------------------------
\* server: nodes, responses and the wire.  The Conn of a Node is "nil",
\* "open" or "closed"; the ID of a Node is left out.
\* ------------------------------------------------------------------------
Node(addr, conn) == [Addr |-> addr, Conn |-> conn]
NodeZero == Node(<<>>, "nil")

\* strings.Compare(a, b) < 0
RECURSIVE StrLess(_, _)
StrLess(a, b) ==
  IF b = <<>> THEN FALSE
  ELSE IF a = <<>> THEN TRUE
  ELSE IF Head(a) # Head(b) THEN Head(a) < Head(b)
  ELSE StrLess(Tail(a), Tail(b))

\* An order of the addresses by length first.
NodesLessShortFirst(a, b) ==
  \/ Len(a.Addr) < Len(b.Addr)
  \/ Len(a.Addr) = Len(b.Addr) /\ StrLess(a.Addr, b.Addr)

\* Nodes.Less
NodesLess(a, b) == StrLess(a.Addr, b.Addr)

RECURSIVE insertNode(_, _)
insertNode(sorted, x) ==
  IF sorted = <<>> THEN <<x>>
  ELSE IF NodesLess(x, Head(sorted)) THEN <<x>> \o sorted
  ELSE <<Head(sorted)>> \o insertNode(Tail(sorted), x)

\* sort.Sort(s.nodes)
RECURSIVE sortNodes(_)
sortNodes(nodes) ==
  IF nodes = <<>> THEN <<>>
  ELSE insertNode(sortNodes(Tail(nodes)), Head(nodes))

\* newServer for the address laddr and the neighbors of its configuration.
\* pc is the place of Start: "new", "join", "insert", "started",
\* "failed"; "crashed" after a panic ended the process.  dials is the state
\* of the goroutines of joinN.
newServer(laddr, neighbors) ==
  [pc |-> "new",
   laddr |-> laddr,
   nodes |-> [i \in 1..Len(neighbors) |-> Node(neighbors[i], "nil")],
   dials |-> [i \in 1..Len(neighbors) |-> [state |-> "dialing", retries |-> 0]],
   ring |-> newRing(NumPartitions)]

ResponseZero == [Status |-> 0, Error |-> NoText, Node |-> NodeZero,
                 Record |-> RecordZero]

\* A mapping that knows success and failure only.
statusOfFlat(err) == IF err.kind = "nil" THEN 200 ELSE 500

statusOf(err) ==
  CASE err.kind = "nil" -> 200
    [] err.kind = "ErrInternal" -> 500
    [] err.kind = "ErrConflict" -> 409
    [] err.kind = "ErrMissing" -> 404
    [] OTHER -> 500

\* The error that roundTrip returns when the channel is closed or the peer is
\* gone, and the Response that Do makes of it.
TransportFailure == [kind |-> "transport", text |-> [msg |-> "EOF", arg |-> <<>>]]

TransportError ==
  [ResponseZero EXCEPT !.Status = statusOf(TransportFailure),
                       !.Error = TransportFailure.text]

\* store.MakeRequest: the registry of actions gives an empty request of the
\* variant that the action names.
MakeRequest(action) == [RequestKeys EXCEPT !.Action = action]

\* The request that the handler of the peer decodes from the envelope that
\* roundTrip wrote: the variant of the action, filled by json.Unmarshal.
WireRequest(r) ==
  [MakeRequest(r.Action) EXCEPT !.Key = r.Key, !.ExpireTime = r.ExpireTime,
                                !.Index = r.Index,
                                !.Data = JSONValue(r.Data),
                                !.Item = JSONValue(r.Item)]

\* The Response that roundTrip decodes from what the handler wrote.
WireResponse(r) == [r EXCEPT !.Record.Data = JSONValue(r.Record.Data)]

\* The Response that the local branch of Do makes of what Serve returned;
\* node is the node that the ring found.
LocalResponse(node, out) ==
  [s |-> out.s,
   panic |-> out.err.kind = "panic",
   err |-> out.err,
   resp |-> IF out.err.kind # "nil"
              THEN [ResponseZero EXCEPT !.Status = statusOf(out.err),
                                        !.Error = out.err.text]
            ELSE [ResponseZero EXCEPT !.Record = out.rec, !.Node = node,
                                      !.Status = statusOf(out.err)]]

\* The local branch of Do on store s.
DoLocal(s, node, r, t, ord) == LocalResponse(node, Serve(r, s, t, t, ord))

\* last before any call of Do has returned.
NoLast == [node |-> <<>>, req |-> RequestKeys, out |-> ResponseZero,
           ref |-> ResponseZero, err |-> NoError, hops |-> 0, steady |-> FALSE,
           broken |-> FALSE, cancelled |-> FALSE, shard |-> {}, hist |-> <<>>]

\* ------------------------------------------------------------------------
\* State.
\*   now       the clock
\*   stores    the store of every node
\*   sweepers  per node, the goroutines started by the timer that run
\*             deleteAfter(cutoff): pc "sweep" before DeleteExpiredKeys,
\*             "rearm" before the re-arming half
\*   served    the last call of store.Serve that returned since the clock
\*             last advanced
\*   nstores   the number of Store requests made so far
\*   life      per node and key, the history of the key since its last Delete
\*             or expiry: n counts the Store requests made on it (0 when
\*             there was none), c0 is the CreatedAt that the first of them
\*             returned and d the ExpireTime of the latest
\* ------------------------------------------------------------------------
\*   srv       the server of every node: the place of its Start, its nodes,
\*             the dials of its joinN and its ring
\*   calls     the calls of Do by clients that have not returned, each with
\*             the runs of Do that it has caused, from node to node
\*   last      the last call of Do that returned to its client, and the
\*             responses of the Store and Delete calls that have returned
\*   ncalls    the number of calls of Do made by clients so far
VARIABLES now, stores, sweepers, served, nstores, life, srv, calls, last, ncalls

vars == <<now, stores, sweepers, served, nstores, life, srv, calls, last, ncalls>>
shardVars == <<now, sweepers, served, nstores, life>>
serverVars == <<srv, calls, last, ncalls>>

\* Node addresses "1", "10" and "2" as byte sequences.
Addrs == {<<49>>, <<49, 48>>, <<50>>}
\* The node whose store the stand-alone shard specification drives.
Shard == <<49>>

\* Data and items of the requests of the shard specification.
ShardData == {IntSlice(<<1, 2>>), IntMap(<<<<3, 4>>>>)}
ShardItems == {IntVal(3)}
ShardIndexes == {1}

\* at is the time of the call, prev the record that the hash map held for
\* the key of the request when the call began (the zero record if none).
NoServed == [node |-> <<>>, req |-> RequestKeys, at |-> 0, prev |-> RecordZero,
             rec |-> RecordZero, err |-> NoError]

Present(n, key) == key \in DOMAIN stores[n].hashMap.records
Stored(n, key) == stores[n].hashMap.records[key]

NoLife == [n |-> 0, c0 |-> 0, d |-> 0]

\* The history of a key at time t: it ends when the key expires.
LifeAt(l, t) ==
  IF l.n > 0 /\ l.d > 0 /\ t - l.c0 > l.d THEN NoLife ELSE l

\* life after a call of Serve on node n that returned rec at time t.
LifeAfter(n, r, rec, t) ==
  [life EXCEPT ![n] = [k \in KeySet |->
     IF r.Action = "store" /\ r.Key = k
       THEN LifeAt([n |-> life[n][k].n + 1,
                    c0 |-> IF life[n][k].n = 0 THEN rec.Meta.CreatedAt
                           ELSE life[n][k].c0,
                    d |-> rec.Meta.ExpireTime], t)
     ELSE IF r.Action = "delete" /\ r.Key = k THEN NoLife
     ELSE LifeAt(life[n][k], t)]]

\* The configurations: every node is given the other nodes in some order.
AllConfigs ==
  {c \in [Addrs -> UNION {Orders(Addrs \ {n}) : n \in Addrs}] :
     \A n \in Addrs : c[n] \in Orders(Addrs \ {n})}

\* The configurations that give every node its neighbors in ascending, or
\* every node its neighbors in descending order of the addresses.
Ascending(seq) == \A i, j \in DOMAIN seq : i < j => StrLess(seq[i], seq[j])

Configs ==
  {c \in AllConfigs :
     \/ \A n \in Addrs : Ascending(c[n])
     \/ \A n \in Addrs : ~Ascending(c[n])}

InitShards ==
  /\ now = 1
  /\ stores = [n \in Addrs |-> newStore]
  /\ sweepers = [n \in Addrs |-> <<>>]
  /\ served = NoServed
  /\ nstores = 0
  /\ life = [n \in Addrs |-> [k \in KeySet |-> NoLife]]
  /\ calls = <<>>
  /\ last = NoLast
  /\ ncalls = 0

\* The stand-alone shard: the servers are constructed and never started.
Init ==
  /\ InitShards
  /\ srv = LET c == CHOOSE c \in Configs : TRUE
           IN [n \in Addrs |-> newServer(n, c[n])]

InitCluster ==
  /\ InitShards
  /\ \E c \in Configs : srv = [n \in Addrs |-> newServer(n, c[n])]

InitStart ==
  /\ InitShards
  /\ \E c \in AllConfigs : srv = [n \in Addrs |-> newServer(n, c[n])]

\* The clock advances.
Tick ==
  /\ now < MaxClock
  /\ now' = now + 1
  /\ served' = NoServed
  /\ life' = [n \in Addrs |-> [k \in KeySet |-> LifeAt(life[n][k], now + 1)]]
  /\ UNCHANGED <<stores, sweepers, nstores, serverVars>>

\* One call of Serve on the store of node n: r is the request, dt the
\* advance of the clock between the two reads of a first Store, ord the
\* order of the map range of a rebuild of the key list.
ServeCall(n, r, dt, ord) ==
  /\ ~stores[n].blocked
  /\ now + dt <= MaxClock
  /\ \E out \in {Serve(r, stores[n], now, now + dt, ord)} :
       /\ stores' = [stores EXCEPT ![n] = out.s]
       /\ now' = now + dt
       /\ served' = IF out.done
                      THEN [node |-> n, req |-> r, at |-> now,
                            prev |-> IF Present(n, r.Key) THEN Stored(n, r.Key)
                                     ELSE RecordZero,
                            rec |-> out.rec, err |-> out.err]
                    ELSE served
       /\ nstores' = IF r.Action = "store" THEN nstores + 1 ELSE nstores
       /\ life' = IF out.done THEN LifeAfter(n, r, out.rec, now + dt) ELSE life
  /\ UNCHANGED <<sweepers, serverVars>>

ServeKeys(n) ==
  \E ord \in Orders(DOMAIN stores[n].hashMap.records) :
    ServeCall(n, RequestKeys, 0, ord)

ServeStoreWithin(n, budget, keys, datas) ==
  \E key \in keys, data \in datas, d \in ExpireSet, dt \in {0, 1} :
    /\ Present(n, key) => dt = 0
    /\ nstores < budget
    /\ now + dt <= MaxTime
    /\ ServeCall(n, RequestStore(key, data, d), dt, <<>>)

ServeStore(n) == ServeStoreWithin(n, MaxStores, KeySet, ShardData)

ServeLoadOf(n, keys) ==
  \E key \in keys : ServeCall(n, RequestLoad(key), 0, <<>>)

ServeLoad(n) == ServeLoadOf(n, KeySet)

ServeDeleteOf(n, keys) ==
  \E key \in keys : ServeCall(n, RequestDelete(key), 0, <<>>)

ServeDelete(n) == ServeDeleteOf(n, KeySet)

ServeListIndexOf(n, keys) ==
  \E key \in keys, i \in ShardIndexes :
    ServeCall(n, RequestListIndex(key, i), 0, <<>>)

ServeListIndex(n) == ServeListIndexOf(n, KeySet)

ServeDictItemOf(n, keys) ==
  \E key \in keys, item \in ShardItems :
    ServeCall(n, RequestDictItem(key, item), 0, <<>>)

ServeDictItem(n) == ServeDictItemOf(n, KeySet)

Without(seq, i) == SubSeq(seq, 1, i - 1) \o SubSeq(seq, i + 1, Len(seq))

\* The timer of node n fires: its function starts in a goroutine of its
\* own.  The runtime starts it once the cutoff has passed.
TimerExpire(n) ==
  /\ stores[n].expireTimer.timer = "active"
  /\ now > stores[n].expireTimer.cutoff
  /\ stores' = [stores EXCEPT ![n].expireTimer.timer = "fired"]
  /\ sweepers' = [sweepers EXCEPT ![n] =
                    Append(@, [pc |-> "sweep", cutoff |-> stores[n].expireTimer.fn])]
  /\ UNCHANGED <<now, served, nstores, life, serverVars>>

\* deleteAfter, first half: DeleteExpiredKeys(cutoff) under worldMu.
SweepDeleteExpired(n) ==
  \E i \in 1..Len(sweepers[n]) :
    /\ sweepers[n][i].pc = "sweep"
    /\ ~stores[n].blocked
    /\ stores' = [stores EXCEPT ![n] = DeleteExpiredKeys(@, sweepers[n][i].cutoff)]
    /\ sweepers' = [sweepers EXCEPT ![n][i].pc = "rearm"]
    /\ UNCHANGED <<now, served, nstores, life, serverVars>>

\* deleteAfter, second half: under worldMu again, re-arm the timer.
SweepRearm(n) ==
  \E i \in 1..Len(sweepers[n]) :
    /\ sweepers[n][i].pc = "rearm"
    /\ ~stores[n].blocked
    /\ stores' = [stores EXCEPT ![n] = deleteAfterRearm(@)]
    /\ sweepers' = [sweepers EXCEPT ![n] = Without(@, i)]
    /\ UNCHANGED <<now, served, nstores, life, serverVars>>

\* The stand-alone shard: requests served on one store.
Next ==
  \/ Tick
  \/ ServeKeys(Shard)
  \/ ServeStore(Shard)
  \/ ServeLoad(Shard)
  \/ ServeDelete(Shard)
  \/ ServeListIndex(Shard)
  \/ ServeDictItem(Shard)
  \/ TimerExpire(Shard)
  \/ SweepDeleteExpired(Shard)
  \/ SweepRearm(Shard)

Spec == Init /\ [][Next]_vars

\* The stand-alone shard under requests on the one key "a".
OneKey == {<<97>>}

NextKey ==
  \/ Tick
  \/ ServeKeys(Shard)
  \/ ServeStoreWithin(Shard, MaxStores, OneKey, ShardData)
  \/ ServeLoadOf(Shard, OneKey)
  \/ ServeDeleteOf(Shard, OneKey)
  \/ ServeListIndexOf(Shard, OneKey)
  \/ ServeDictItemOf(Shard, OneKey)
  \/ TimerExpire(Shard)
  \/ SweepDeleteExpired(Shard)
  \/ SweepRearm(Shard)

SpecKey == Init /\ [][NextKey]_vars

\* The shard under requests on the key "a" whose data are of every kind: the
\* empty datum, a number, lists and dictionaries as a caller and as JSON
\* make them; ListIndex at the first position and at the length of the
\* lists, DictItem of items of several types.
NextReq ==
  \/ Tick
  \/ ServeKeys(Shard)
  \/ ServeStoreWithin(Shard, MaxStores, OneKey,
                      {Nil, IntVal(3), IntSlice(<<1, 2>>),
                       AnySlice(<<FloatVal(1), StrVal(<<98>>)>>),
                       IntMap(<<<<3, 4>>>>),
                       AnyMap(<<<<<<51>>, FloatVal(4)>>>>)})
  \/ ServeLoadOf(Shard, OneKey)
  \/ ServeDeleteOf(Shard, OneKey)
  \/ \E key \in OneKey, i \in {0, 2} :
       ServeCall(Shard, RequestListIndex(key, i), 0, <<>>)
  \/ \E key \in OneKey, item \in {IntVal(3), IntVal(5), StrVal(<<51>>), FloatVal(3)} :
       ServeCall(Shard, RequestDictItem(key, item), 0, <<>>)
  \/ TimerExpire(Shard)
  \/ SweepDeleteExpired(Shard)
  \/ SweepRearm(Shard)

SpecReq == Init /\ [][NextReq]_vars

\* The hash store alone: Store of permanent records, Load, Delete and Keys on
\* two keys; nothing expires and the timer is never armed.
NextHash ==
  \/ Tick
  \/ ServeKeys(Shard)
  \/ \E key \in KeySet, dt \in {0, 1} :
       /\ Present(Shard, key) => dt = 0
       /\ nstores < MaxStores
       /\ now + dt <= MaxTime
       /\ ServeCall(Shard, RequestStore(key, IntVal(1), 0), dt, <<>>)
  \/ ServeLoad(Shard)
  \/ ServeDelete(Shard)

SpecHash == Init /\ [][NextHash]_vars

\* The shard under Store requests at any time of the clock, also after the
\* timers of the first records have fired.
NextLate ==
  \/ Tick
  \/ \E key \in KeySet, d \in ExpireSet, dt \in {0, 1} :
       /\ Present(Shard, key) => dt = 0
       /\ nstores < MaxStoresTTL
       /\ ServeCall(Shard, RequestStore(key, IntVal(1), d), dt, <<>>)
  \/ TimerExpire(Shard)
  \/ SweepDeleteExpired(Shard)
  \/ SweepRearm(Shard)

SpecLate == Init /\ [][NextLate]_vars

\* The ring alone: elements with the Values 0, 1 and 2 are inserted into
\* and removed from the ring of one server that is never started; ncalls
\* counts the calls of Insert.
NextRing ==
  \/ \E v \in 0..2 :
       /\ srv[Shard].pc = "new"
       /\ Len(srv[Shard].ring.elements) < NumPartitions
       /\ ncalls < 2 * NumPartitions
       /\ srv' = [srv EXCEPT ![Shard].ring = Insert(@, [Value |-> v])]
       /\ ncalls' = ncalls + 1
       /\ UNCHANGED <<calls, last, shardVars, stores>>
  \/ \E v \in 0..2 :
       /\ srv[Shard].pc = "new"
       /\ \E out \in {Remove(srv[Shard].ring, [Value |-> v])} :
            srv' = [srv EXCEPT ![Shard].ring = out.r,
                               ![Shard].pc = IF out.panic THEN "crashed" ELSE @]
       /\ UNCHANGED <<calls, last, ncalls, shardVars, stores>>

SpecRing == Init /\ [][NextRing]_vars

\* ------------------------------------------------------------------------
\* The timeHeap alone under heap.Push and heap.Pop, as TestTimeHeap uses it.
\* ------------------------------------------------------------------------
NextHeap ==
  \/ \E t \in 1..MaxClock, key \in KeySet :
       /\ Len(stores[Shard].expireHeap) < MaxStoresTTL
       /\ stores' = [stores EXCEPT ![Shard].expireHeap =
                       heapPush(@, [Time |-> t, Data |-> key])]
       /\ UNCHANGED <<shardVars, serverVars>>
  \/ /\ Len(stores[Shard].expireHeap) > 0
     /\ stores' = [stores EXCEPT ![Shard].expireHeap = heapPop(@).arr]
     /\ UNCHANGED <<shardVars, serverVars>>

SpecHeap == Init /\ [][NextHeap]_vars

\* The refreshTimer alone: AfterFunc is called with any time and either of
\* two functions while the clock advances and the runtime fires the timer; a
\* function that was started is recorded in sweepers.
CallAfterFunc(n) ==
  \E t \in 1..(MaxTime + MaxExpire), fn \in {1, 2} :
    /\ ~stores[n].blocked
    /\ \E a \in {AfterFunc(stores[n].expireTimer, t, fn)} :
         stores' = [stores EXCEPT ![n].expireTimer = a.rt,
                                  ![n].blocked = a.blocked]
    /\ UNCHANGED <<now, sweepers, served, nstores, life, serverVars>>

NextTimer ==
  \/ Tick
  \/ CallAfterFunc(Shard)
  \/ TimerExpire(Shard)

SpecTimer == Init /\ [][NextTimer]_vars

\* The shard under Store requests only: no Load, Delete or Keys touches the
\* records.  The runtime runs every due timer and every started goroutine,
\* and the clock advances.
NextTTL ==
  \/ Tick
  \/ ServeStoreWithin(Shard, MaxStoresTTL, KeySet, {IntVal(1)})
  \/ TimerExpire(Shard)
  \/ SweepDeleteExpired(Shard)
  \/ SweepRearm(Shard)

SpecTTL ==
  /\ Init
  /\ [][NextTTL]_vars
  /\ WF_vars(Tick)
  /\ WF_vars(TimerExpire(Shard))
  /\ WF_vars(SweepDeleteExpired(Shard))
  /\ WF_vars(SweepRearm(Shard))

\* ------------------------------------------------------------------------
\* The cluster: every node runs Start; clients call Do on the nodes whose
\* Start has returned; the handlers of the peers serve what is forwarded.
\* The requests of the cluster store permanent records.
\* ------------------------------------------------------------------------
ClusterKey == <<97>>
ClusterRequests ==
  {RequestKeys,
   RequestStore(ClusterKey, IntMap(<<<<3, 4>>>>), 0),
   RequestLoad(ClusterKey),
   RequestDelete(ClusterKey),
   RequestListIndex(ClusterKey, 1),
   RequestDictItem(ClusterKey, IntVal(3))}

AllStarted == \A n \in Addrs : srv[n].pc = "started"

\* Start, up to joinN: the listener is started and bound.
Start(n) ==
  /\ srv[n].pc = "new"
  /\ srv' = [srv EXCEPT ![n].pc = "join"]
  /\ UNCHANGED <<calls, last, ncalls, shardVars, stores>>

Listening(p) == srv[p].pc \notin {"new", "crashed"}

\* One dial of join(node) in the goroutine that joinN started for neighbor
\* ii: on success the goroutine puts the connected node into s.nodes, on
\* failure it waits and dials again while retries are left.
Dial(n, ii) ==
  LET d == srv[n].dials[ii]
      peer == srv[n].nodes[ii].Addr
  IN /\ srv[n].pc = "join"
     /\ d.state = "dialing"
     /\ srv' = IF Listening(peer)
                 THEN [srv EXCEPT ![n].nodes[ii] = Node(peer, "open"),
                                  ![n].dials[ii].state = "ok"]
               ELSE IF d.retries < NumRetries
                 THEN [srv EXCEPT ![n].dials[ii].retries = d.retries + 1]
               ELSE [srv EXCEPT ![n].dials[ii].state = "failed"]
     /\ UNCHANGED <<calls, last, ncalls, shardVars, stores>>

\* A joinN that returns its error and leaves the opened channels as they are.
JoinReturnLeaky(n) ==
  /\ srv[n].pc = "join"
  /\ \A ii \in DOMAIN srv[n].dials : srv[n].dials[ii].state # "dialing"
  /\ srv' = [srv EXCEPT ![n].pc =
               IF \E ii \in DOMAIN srv[n].dials : srv[n].dials[ii].state = "failed"
                 THEN "failed" ELSE "insert",
                        ![n].nodes =
               IF \E ii \in DOMAIN srv[n].dials : srv[n].dials[ii].state = "failed"
                 THEN srv[n].nodes
               ELSE sortNodes(Append(srv[n].nodes, Node(srv[n].laddr, "nil")))]
  /\ UNCHANGED <<calls, last, ncalls, shardVars, stores>>

\* joinN returns after all its goroutines: with an error, and closing what
\* is open in s.nodes, or to Start, which appends its own node and sorts the
\* nodes.
JoinReturn(n) ==
  LET s == srv[n]
      failed == \E ii \in DOMAIN s.dials : s.dials[ii].state = "failed"
  IN /\ s.pc = "join"
     /\ \A ii \in DOMAIN s.dials : s.dials[ii].state # "dialing"
     /\ srv' = IF failed
                 THEN [srv EXCEPT ![n].pc = "failed",
                                  ![n].nodes = [i \in DOMAIN s.nodes |->
                                     IF s.nodes[i].Conn = "open"
                                       THEN Node(s.nodes[i].Addr, "closed")
                                     ELSE s.nodes[i]]]
               ELSE [srv EXCEPT ![n].pc = "insert",
                                ![n].nodes =
                                   sortNodes(Append(s.nodes, Node(s.laddr, "nil")))]
     /\ UNCHANGED <<calls, last, ncalls, shardVars, stores>>

\* One turn of the loop that inserts the node indexes into the ring; Start
\* returns after the last.
RingInsert(n) ==
  LET s == srv[n]
      ii == Len(s.ring.elements)
  IN /\ s.pc = "insert"
     /\ srv' = [srv EXCEPT ![n].ring = Insert(s.ring, [Value |-> ii]),
                           ![n].pc = IF ii + 1 = Len(s.nodes) THEN "started"
                                     ELSE "insert"]
     /\ UNCHANGED <<calls, last, ncalls, shardVars, stores>>

\* The node that Do finds in charge of request r on node n.
Route(n, r) ==
  srv[n].nodes[Find(srv[n].ring, StringHasher(Hash(r))).Value + 1]

\* A node.mu that is never found held.
LockedNever(n, a) == FALSE

\* node.mu of the node for address a on node n is held by a roundTrip.
Locked(n, a) ==
  \E c \in DOMAIN calls : \E j \in DOMAIN calls[c].frames :
    /\ calls[c].frames[j].node = n
    /\ calls[c].frames[j].pc \in {"sent", "read"}
    /\ calls[c].frames[j].to = a

\* A frame is one run of Do: on node, for request req; pc is "sent" while
\* its roundTrip waits for the node at to, "read" when the handler there has
\* read the envelope and gone on to the next without writing a Response,
\* "done" when resp is its Response.  ref is the Response of the owner to the request of the client
\* in the shard state in which the forwarded request was served, err the
\* error with which the request was processed where it was processed.
Frame(n, r, pc, to, resp, ref, err) ==
  [node |-> n, req |-> r, pc |-> pc, to |-> to, resp |-> resp, ref |-> ref,
   err |-> err]

\* The calls after the process of node p has ended: its runs of Do and all
\* that they wait for are gone, and the roundTrip that waits for p fails.
CrashCalls(cs, p) ==
  LET at(c) == {j \in DOMAIN c.frames :
                  \/ c.frames[j].node = p
                  \/ j > 1 /\ c.frames[j - 1].pc \in {"sent", "read"}
                           /\ c.frames[j - 1].to = p}
             \cup {j \in {Len(c.frames) + 1} :
                     /\ c.frames[j - 1].pc \in {"sent", "read"}
                     /\ c.frames[j - 1].to = p}
      first(c) == CHOOSE j \in at(c) : \A i \in at(c) : j <= i
      cut(c) ==
        IF at(c) = {} THEN c
        ELSE [c EXCEPT !.frames =
               [i \in 1..(first(c) - 1) |->
                  IF i = first(c) - 1
                    THEN [c.frames[i] EXCEPT !.pc = "done", !.resp = TransportError,
                                             !.err = TransportFailure]
                  ELSE c.frames[i]]]
      alive(c) == c.frames # <<>>
  IN SelectSeq([i \in DOMAIN cs |-> cut(cs[i])], alive)

\* The first part of Do on node n for request r: the result is a panic, a
\* Response (served on the local store, or failed on a closed channel) or a
\* roundTrip that has sent the request.
DoServed(n, r, l, ref) ==
  IF l.panic THEN [kind |-> "panic"]
  ELSE [kind |-> "local", s |-> l.s,
        frame |-> Frame(n, r, "done", <<>>, l.resp, ref.resp, l.err)]

\* A Do that sends on the channel whatever its state.
DoAtBlind(n, r, orig, ord, node) ==
  IF node.Conn = "nil" \/ Hash(r) = <<>>
    THEN DoServed(n, r, DoLocal(stores[n], node, r, now, ord),
                        DoLocal(stores[n], node, orig, now, ord))
  ELSE [kind |-> "forward", to |-> node.Addr,
        frame |-> Frame(n, r, "sent", node.Addr, ResponseZero, ResponseZero,
                        NoError)]

DoAt(n, r, orig, ord, node) ==
  IF node.Conn = "nil" \/ Hash(r) = <<>>
    THEN DoServed(n, r, DoLocal(stores[n], node, r, now, ord),
                        DoLocal(stores[n], node, orig, now, ord))
  ELSE IF node.Conn = "closed" \/ srv[node.Addr].pc = "crashed"
    THEN [kind |-> "failed",
          frame |-> Frame(n, r, "done", <<>>, TransportError, ResponseZero,
                          TransportFailure)]
  ELSE [kind |-> "forward", to |-> node.Addr,
        frame |-> Frame(n, r, "sent", node.Addr, ResponseZero, ResponseZero,
                        NoError)]

DoBegin(n, r, orig, ord) ==
  IF srv[n].ring.elements = <<>> THEN [kind |-> "panic"]
  ELSE DoAt(n, r, orig, ord, Route(n, r))

\* What a call that has returned leaves in last; hist keeps what the Store
\* and Delete calls so far have returned, in the order of their returns.
Returned(call, f, newstores) ==
  [node |-> call.node, req |-> call.req, out |-> f.resp, ref |-> f.ref,
   err |-> f.err, hops |-> call.hops, steady |-> call.steady,
   broken |-> call.broken, cancelled |-> call.cancelled,
   hist |-> IF call.req.Action \in {"store", "delete"}
              THEN Append(last.hist, [Action |-> call.req.Action,
                                      Status |-> f.resp.Status,
                                      Index |-> f.resp.Record.Meta.Index,
                                      Data |-> f.resp.Record.Data])
            ELSE last.hist,
   shard |-> DOMAIN newstores[call.node].hashMap.records]

\* The channel of node is closed, or the process at its other end is gone.
Broken(node) ==
  \/ node.Conn = "closed"
  \/ node.Conn = "open" /\ srv[node.Addr].pc = "crashed"

\* A client calls Do(r) on a node whose Start has returned: r is one of
\* reqs, budget bounds the calls made and active those in progress.
ClientDoWith(n, reqs, budget, active) ==
  \E r \in reqs, ord \in Orders(DOMAIN stores[n].hashMap.records) :
    /\ srv[n].pc = "started"
    /\ ncalls < budget
    /\ Len(calls) < active
    /\ \E b \in {DoBegin(n, r, r, ord)},
          call \in {[node |-> n, req |-> r, hops |-> 0, steady |-> AllStarted,
                     broken |-> Hash(r) # <<>> /\ Broken(Route(n, r)),
                     cancelled |-> FALSE,
                     frames |-> <<>>]} :
       /\ b.kind # "panic"
       /\ b.kind = "forward" => ~Locked(n, b.to)
       /\ ncalls' = ncalls + 1
       /\ stores' = IF b.kind = "local" THEN [stores EXCEPT ![n] = b.s] ELSE stores
       /\ calls' = IF b.kind = "forward"
                     THEN Append(calls, [call EXCEPT !.frames = <<b.frame>>])
                   ELSE calls
       /\ last' = IF b.kind = "forward" THEN last
                  ELSE Returned(call, b.frame, stores')
       /\ UNCHANGED <<srv, shardVars>>

ClientDo(n) == ClientDoWith(n, ClusterRequests, MaxCalls, MaxActive)

\* The process of node p ends with a panic.
Crashed(p) == [srv EXCEPT ![p].pc = "crashed"]

\* The handler of the peer reads the envelope of call c, decodes the
\* request and runs Do on it.  With an action that store.MakeRequest does
\* not know the handler logs the error and reads the next envelope.
Handle(c) ==
  LET call == calls[c]
      k == Len(call.frames)
      f == call.frames[k]
      p == f.to
  IN /\ f.pc = "sent"
     /\ srv[p].pc # "crashed"
     /\ \E b \in {IF f.req.Action \in {"keys", "load", "store", "delete",
                                       "index", "item"}
                    THEN DoBegin(p, WireRequest(f.req), call.req, <<>>)
                  ELSE [kind |-> "continue"]} :
          /\ b.kind = "forward" => ~Locked(p, b.to)
          /\ IF b.kind = "continue"
               THEN /\ calls' = [calls EXCEPT ![c].frames[k].pc = "read"]
                    /\ UNCHANGED <<srv, stores>>
             ELSE IF b.kind = "panic"
               THEN /\ srv' = Crashed(p)
                    /\ stores' = [stores EXCEPT ![p] = newStore]
                    /\ calls' = CrashCalls(
                         [calls EXCEPT ![c].frames[k] =
                            [f EXCEPT !.pc = "done", !.resp = TransportError,
                                      !.err = TransportFailure]], p)
             ELSE /\ srv' = srv
                  /\ stores' = IF b.kind = "local" THEN [stores EXCEPT ![p] = b.s]
                               ELSE stores
                  /\ calls' = [calls EXCEPT ![c].frames = Append(@, b.frame),
                                            ![c].hops = @ + 1]
     /\ UNCHANGED <<last, ncalls, shardVars>>

\* The Response of the last run of Do of call c goes back: the handler
\* writes it and the roundTrip below reads it and releases node.mu, or, from
\* the first run, Do returns it to the client.
Return(c) ==
  LET call == calls[c]
      k == Len(call.frames)
      f == call.frames[k]
  IN /\ f.pc = "done"
     /\ IF k = 1
          THEN /\ calls' = Without(calls, c)
               /\ last' = Returned(call, f, stores)
        ELSE /\ calls' = [calls EXCEPT ![c].frames =
                            [i \in 1..(k - 1) |->
                               IF i = k - 1
                                 THEN [call.frames[i] EXCEPT
                                         !.pc = "done",
                                         !.resp = WireResponse(f.resp),
                                         !.ref = f.ref,
                                         !.err = f.err]
                               ELSE call.frames[i]]]
             /\ last' = last
     /\ UNCHANGED <<srv, ncalls, shardVars, stores>>

NextCluster ==
  \/ \E n \in Addrs : Start(n)
  \/ \E n \in Addrs : \E ii \in DOMAIN srv[n].dials : Dial(n, ii)
  \/ \E n \in Addrs : JoinReturn(n)
  \/ \E n \in Addrs : RingInsert(n)
  \/ \E n \in Addrs : ClientDo(n)
  \/ \E c \in DOMAIN calls : Handle(c)
  \/ \E c \in DOMAIN calls : Return(c)

SpecCluster == InitCluster /\ [][NextCluster]_vars

\* The start of the cluster alone, before any client calls Do, from every
\* configuration.
NextStart ==
  \/ \E n \in Addrs : Start(n)
  \/ \E n \in Addrs : \E ii \in DOMAIN srv[n].dials : Dial(n, ii)
  \/ \E n \in Addrs : JoinReturn(n)
  \/ \E n \in Addrs : RingInsert(n)

SpecStart == InitStart /\ [][NextStart]_vars

\* ------------------------------------------------------------------------
\* join alone, with its waits: the goroutines of joinN of one server, each
\* in join(node) for one neighbor.  A dial keeps retries and backoff of
\* join, limit is s.retries, slept the waits made so far, in seconds.
\* ------------------------------------------------------------------------
\* A join that waits after every failed dial.
joinSleepsLast(n, ii, ok) ==
  LET d == srv[n].dials[ii]
  IN /\ d.state = "dialing"
     /\ srv' = [srv EXCEPT ![n].dials[ii] =
          IF ok THEN [d EXCEPT !.state = "ok"]
          ELSE [d EXCEPT !.slept = Append(d.slept, d.backoff),
                         !.backoff = d.backoff * 2,
                         !.retries = d.retries + 1,
                         !.state = IF d.retries + 1 <= d.limit THEN "dialing"
                                   ELSE "failed"]]
     /\ UNCHANGED <<calls, last, ncalls, shardVars, stores>>

\* One turn of the loop of join(node) for neighbor ii of node n: the dial
\* succeeds (ok) and join returns the connection, or it fails, join waits if
\* a retry is left, doubles the backoff and counts the retry.
join(n, ii, ok) ==
  LET d == srv[n].dials[ii]
  IN /\ d.state = "dialing"
     /\ srv' = [srv EXCEPT ![n].dials[ii] =
          IF ok THEN [d EXCEPT !.state = "ok"]
          ELSE [d EXCEPT !.slept = IF d.retries < d.limit
                                     THEN Append(d.slept, d.backoff)
                                   ELSE d.slept,
                         !.backoff = d.backoff * 2,
                         !.retries = d.retries + 1,
                         !.state = IF d.retries + 1 <= d.limit THEN "dialing"
                                   ELSE "failed"]]
     /\ UNCHANGED <<calls, last, ncalls, shardVars, stores>>

NextJoin ==
  \E ii \in DOMAIN srv[Shard].dials, ok \in BOOLEAN : join(Shard, ii, ok)

SpecJoin ==
  /\ \E retries \in 0..MaxRetries :
       InitShards /\
       srv = [n \in Addrs |->
                [newServer(n, (CHOOSE c \in Configs : TRUE)[n]) EXCEPT !.pc = "join",
                   !.dials = [i \in DOMAIN @ |->
                                [state |-> "dialing", retries |-> 0, backoff |-> 1,
                                 limit |-> retries, slept |-> <<>>]]]]
  /\ [][NextJoin]_vars

\* ------------------------------------------------------------------------
\* The started cluster: Start has returned on every node before the first
\* client calls Do.  Clients call Do concurrently; a process may end and a
\* server may be stopped.
\* ------------------------------------------------------------------------
\* The server of laddr after its Start has returned without error.
\* A started server whose nodes are its own node and then its neighbors in
\* the order of its configuration.
startedServerUnsorted(laddr, neighbors) ==
  [pc |-> "started",
   laddr |-> laddr,
   nodes |-> <<Node(laddr, "nil")>>
               \o [i \in 1..Len(neighbors) |-> Node(neighbors[i], "open")],
   dials |-> [i \in 1..Len(neighbors) |-> [state |-> "ok", retries |-> 0]],
   ring |-> Insert(Insert(Insert(newRing(NumPartitions), [Value |-> 0]),
                          [Value |-> 1]), [Value |-> 2])]

startedServer(laddr, neighbors) ==
  [pc |-> "started",
   laddr |-> laddr,
   nodes |-> sortNodes(Append([i \in 1..Len(neighbors) |-> Node(neighbors[i], "open")],
                              Node(laddr, "nil"))),
   dials |-> [i \in 1..Len(neighbors) |-> [state |-> "ok", retries |-> 0]],
   ring |-> Insert(Insert(Insert(newRing(NumPartitions), [Value |-> 0]),
                          [Value |-> 1]), [Value |-> 2])]

InitDo ==
  /\ InitShards
  /\ srv = LET c == CHOOSE c \in Configs : TRUE
           IN [n \in Addrs |-> startedServer(n, c[n])]

DoRequests ==
  {RequestKeys,
   RequestStore(ClusterKey, IntMap(<<<<3, 4>>>>), 0),
   RequestStore(ClusterKey, IntSlice(<<1, 2>>), 0),
   RequestDelete(ClusterKey),
   RequestDictItem(ClusterKey, IntVal(3)),
   RequestDictItem(ClusterKey, IntVal(5))}

\* The servers that were stopped and the processes that have ended.
Faults ==
  Cardinality({n \in Addrs : srv[n].pc = "crashed"})
    + Cardinality({n \in Addrs : \E i \in DOMAIN srv[n].nodes :
                                   srv[n].nodes[i].Conn = "closed"})

\* The process of node p ends: its peers find their channels to it dropped.
Exit(p) ==
  /\ srv[p].pc = "started"
  /\ Faults < MaxFaults
  /\ srv' = Crashed(p)
  /\ stores' = [stores EXCEPT ![p] = newStore]
  /\ calls' = CrashCalls(calls, p)
  /\ UNCHANGED <<last, ncalls, shardVars>>

\* Stop on node n, at a moment when none of its round trips is under way:
\* the channels to its neighbors are closed.
Stop(n) ==
  /\ srv[n].pc = "started"
  /\ Faults < MaxFaults
  /\ \A a \in Addrs : ~Locked(n, a)
  /\ srv' = [srv EXCEPT ![n].nodes = [i \in DOMAIN @ |->
                IF @[i].Conn = "open" THEN Node(@[i].Addr, "closed") ELSE @[i]]]
  /\ UNCHANGED <<calls, last, ncalls, shardVars, stores>>

NextDo ==
  \/ \E n \in Addrs : ClientDoWith(n, DoRequests, MaxDoCalls, MaxDoActive)
  \/ \E c \in DOMAIN calls : Handle(c)
  \/ \E c \in DOMAIN calls : Return(c)
  \/ \E p \in Addrs : Exit(p)
  \/ \E n \in Addrs : Stop(n)

SpecDo == InitDo /\ [][NextDo]_vars

\* The context that the client passed to Do for call c is cancelled while
\* its roundTrip waits on the channel of the peer.  Do does not look at its
\* context and roundTrip does not get it: nothing but the note changes.
Cancel(c) ==
  /\ calls[c].frames[1].pc \in {"sent", "read"}
  /\ ~calls[c].cancelled
  /\ calls' = [calls EXCEPT ![c].cancelled = TRUE]
  /\ UNCHANGED <<last, ncalls, shardVars, srv, stores>>

\* The started cluster with a request of a variant that the registry of the
\* peers does not have: Do takes every store.Request, and such a request is
\* passed to a node that forwards it.  The contexts of calls are cancelled
\* while they wait.
NextWire ==
  \/ \E n \in Addrs :
       \E r \in {RequestStore(ClusterKey, IntVal(1), 0), RequestLoad(ClusterKey),
                 [RequestLoad(ClusterKey) EXCEPT !.Action = "ping"]} :
         /\ r.Action = "ping" => Route(n, r).Conn = "open"
         /\ ClientDoWith(n, {r}, MaxDoCalls, MaxDoActive)
  \/ \E c \in DOMAIN calls : Handle(c)
  \/ \E c \in DOMAIN calls : Return(c)
  \/ \E c \in DOMAIN calls : Cancel(c)

SpecWire == InitDo /\ [][NextWire]_vars

\* ------------------------------------------------------------------------
\* Properties of the shard.
\* ------------------------------------------------------------------------
ReadActions == {"load", "index", "item"}

\* The record r was last stored more than its expire time before time t.
StoredLongAgo(r, t) ==
  r.Meta.ExpireTime > 0 /\ t - r.Meta.UpdatedAt > r.Meta.ExpireTime

\* C1: a Load, ListIndex or DictItem request on a key whose most recent
\* Store happened at time t with ExpireTime d > 0 reports the key as not
\* present (ErrMissing) when it is issued at a time t' with t' - t > d,
\* whether or not the timer has fired.
C1_ExpiredNotPresent ==
  (/\ served.req.Action \in ReadActions
   /\ served.prev.Meta.Index > 0
   /\ StoredLongAgo(served.prev, served.at))
    => served.err.kind = "ErrMissing"

\* A ListIndex request has reported such a key missing while the timer was
\* still pending.
C1_Witness ==
  /\ served.req.Action = "index"
  /\ served.prev.Meta.Index > 0
  /\ StoredLongAgo(served.prev, served.at)
  /\ served.err.kind = "ErrMissing"
  /\ stores[Shard].expireTimer.timer = "active"
  /\ sweepers[Shard] = <<>>

\* A record with an expire time that is past its expiry.
Overdue(k) ==
  /\ Present(Shard, k)
  /\ ~IsPermanent(Stored(Shard, k))
  /\ now > ExpiresAt(Stored(Shard, k))

\* C2: under Store requests alone, every record stored with ExpireTime > 0
\* and not stored again is purged by the timer: once it is past its expiry,
\* it is eventually absent from the hash map (or has been stored again).
C2_EventuallyPurged ==
  \A k \in KeySet, i \in 1..MaxStoresTTL :
    [](Overdue(k) /\ Stored(Shard, k).Meta.Index = i
         => <>(~Present(Shard, k) \/ Stored(Shard, k).Meta.Index # i))

\* C3: a record leaves the hash map only by a Delete request on its key or
\* when that record is expired.
C3_RemovedOnlyByDeleteOrExpiry ==
  [][\A k \in KeySet :
       (Present(Shard, k) /\ k \notin DOMAIN stores'[Shard].hashMap.records)
         => \/ served'.req.Action = "delete" /\ served'.req.Key = k
            \/ IsExpired(Stored(Shard, k), now)]_vars

\* C4: the Index of the stored record of a key is the number of Store
\* requests made on the key since its last Delete or expiry.
C4_IndexCountsStores ==
  \A k \in KeySet :
    (Present(Shard, k) /\ life[Shard][k].n > 0)
      => Stored(Shard, k).Meta.Index = life[Shard][k].n

\* C5: between the first Store of a key and its Delete or expiry the stored
\* record keeps the CreatedAt of that first Store; every Store sets UpdatedAt
\* to its own time; UpdatedAt >= CreatedAt in every state.
C5_CreatedAtStable ==
  /\ [](\A k \in KeySet :
          Present(Shard, k) =>
            /\ Stored(Shard, k).Meta.UpdatedAt >= Stored(Shard, k).Meta.CreatedAt
            /\ life[Shard][k].n > 0 =>
                 Stored(Shard, k).Meta.CreatedAt = life[Shard][k].c0)
  /\ [][(served' # served /\ served'.req.Action = "store")
          => stores'[Shard].hashMap.records[served'.req.Key].Meta.UpdatedAt
               = now']_vars

\* The key of the request last served was present when the call began: the
\* hash map held a record for it that was not expired.
ServedPresent ==
  served.prev.Meta.Index > 0 /\ ~IsExpired(served.prev, served.at)

\* The record returned by the request last served has the metadata of the
\* stored record, as Load returns them.
ServedMeta ==
  served.rec.Meta = [served.prev.Meta EXCEPT !.AccessedAt = served.at]

\* C14: ListIndex on key K with index i returns ErrMissing when K is not
\* present, ErrConflict "<K> is not a list" when the stored Data is not a
\* sequence, ErrConflict "position <i> is out of range" when i >= length,
\* and otherwise a record with the metadata of the stored record whose Data
\* is the element at position i.
C14_ListIndex ==
  served.req.Action = "index" =>
    IF ~ServedPresent
      THEN served.err = ErrMissing("%s does not exist", served.req.Key)
    ELSE IF ~IsSlice(served.prev.Data)
      THEN served.err = ErrConflict("%s is not a list", served.req.Key)
    ELSE IF served.req.Index >= Len(served.prev.Data.v)
      THEN served.err = ErrConflict("position %d is out of range",
                                    Digit(served.req.Index))
    ELSE /\ served.err = NoError
         /\ ServedMeta
         /\ served.rec.Data = SliceIndex(served.prev.Data, served.req.Index)

\* C15: DictItem on key K with item x returns ErrMissing when K is not
\* present, ErrConflict "<K> is not a dictionary" when the stored Data is not
\* a mapping, ErrConflict "item <x> is invalid" when the mapping does not
\* accept a key of the type of x, ErrInternal "unexpected value at key <x>"
\* when x is not in the mapping, and otherwise a record with the metadata of
\* the stored record whose Data is the mapped value; it never panics.
C15_DictItem ==
  served.req.Action = "item" =>
    /\ served.err.kind # "panic"
    /\ IF ~ServedPresent
         THEN served.err = ErrMissing("%s does not exist", served.req.Key)
       ELSE IF ~IsMap(served.prev.Data)
         THEN served.err = ErrConflict("%s is not a dictionary", served.req.Key)
       ELSE IF ~KeyAssignable(served.prev.Data, served.req.Item)
         THEN served.err = ErrConflict("item %v is invalid", Sprint(served.req.Item))
       ELSE IF MapHits(served.prev.Data, served.req.Item) = {}
         THEN served.err = ErrInternal("unexpected value at key %v",
                                       Sprint(served.req.Item))
       ELSE /\ served.err = NoError
            /\ ServedMeta
            /\ \E i \in MapHits(served.prev.Data, served.req.Item) :
                 served.rec.Data = MapValue(served.prev.Data, i)

\* The step is a call of Serve for a Delete request that returned.
DeleteServed == served' # served /\ served'.req.Action = "delete"

KeysServed ==
  served' # served /\ served'.node # <<>> /\ served'.req.Action = "keys"

\* The place of the first occurrence of key k in the sequence keys.
FirstAt(keys, k) ==
  CHOOSE i \in DOMAIN keys : keys[i] = k /\ \A j \in 1..(i - 1) : keys[j] # k

\* C17: the sequence that Keys returns contains every key that is in the map
\* and no other key; while no key was ever deleted (every Store so far has
\* appended to the list), the keys appear in the order in which they were
\* first inserted.
C17_KeysAreTheMap ==
  [][KeysServed =>
       LET keys == served'.rec.Data.v
           records == stores'[Shard].hashMap.records
       IN /\ {keys[i] : i \in DOMAIN keys} = DOMAIN records
          /\ Len(keys) = nstores' =>
               \A k1, k2 \in DOMAIN records :
                 records[k1].Meta.CreatedAt < records[k2].Meta.CreatedAt
                   => FirstAt(keys, k1) < FirstAt(keys, k2)]_vars

\* Keys has returned "b", "a" for the two keys, stored in this order and
\* never deleted.
C17_Witness ==
  /\ served.req.Action = "keys"
  /\ served.rec.Data = StrSlice(<<<<98>>, <<97>>>>)
  /\ DOMAIN stores[Shard].hashMap.records = KeySet
  /\ Stored(Shard, <<98>>).Meta.CreatedAt < Stored(Shard, <<97>>).Meta.CreatedAt
  /\ nstores = 2

\* ------------------------------------------------------------------------
\* Properties of the cluster.
\* ------------------------------------------------------------------------
\* The addresses "1", "10" and "2" in the order of their strings, and the
\* 32-bit FNV checksums of the keys "a", "b" and "c".
SortedAddrs == <<<<49>>, <<49, 48>>, <<50>>>>
Fnv32 == (<<97>> :> 84696446) @@ (<<98>> :> 84696445) @@ (<<99>> :> 84696444)

\* The address of the owner of key K.
OwnerOf(K) == SortedAddrs[((Fnv32[K] % NumPartitions) % Len(SortedAddrs)) + 1]

\* C6: once Start has returned without error on every node, every node holds
\* the addresses in the order of their strings, its own node once and without
\* a channel, the others with one, and the ring elements 0..N-1 in that
\* order; every node finds for a key the owner sorted[(fnv32(K) mod P) mod N].
C6_SameNodesAndOwner ==
  AllStarted =>
    \A n \in Addrs :
      /\ [i \in DOMAIN srv[n].nodes |-> srv[n].nodes[i].Addr] = SortedAddrs
      /\ \A i \in DOMAIN srv[n].nodes :
           srv[n].nodes[i].Conn = (IF srv[n].nodes[i].Addr = n THEN "nil" ELSE "open")
      /\ srv[n].ring.elements = [i \in 1..Len(SortedAddrs) |-> [Value |-> i - 1]]
      /\ \A K \in DOMAIN Fnv32 : Route(n, RequestLoad(K)).Addr = OwnerOf(K)

\* Start has returned on every node after each of its dials succeeded, and
\* node "2" holds its own node last, without a channel.
C6_Witness ==
  /\ AllStarted
  /\ \A n \in Addrs : srv[n].dials = [i \in 1..2 |-> [state |-> "ok", retries |-> 0]]
  /\ srv[<<50>>].nodes[3] = Node(<<50>>, "nil")

\* C7: the Response that Do returns for a request with a non-empty Hash names
\* in Node the owner of the hash, whatever the outcome.
C7_NodeIsOwner ==
  (last.node # <<>> /\ last.steady /\ Hash(last.req) # <<>>)
    => last.out.Node.Addr = OwnerOf(Hash(last.req))

\* C8: a Keys request given to Do on node X is not forwarded, returns only
\* keys of the shard of X, and the Node of its Response is X.
C8_KeysIsLocal ==
  (last.node # <<>> /\ last.steady /\ last.req.Action = "keys")
    => /\ last.hops = 0
       /\ \A i \in DOMAIN last.out.Record.Data.v :
            last.out.Record.Data.v[i] \in last.shard
       /\ last.out.Node.Addr = last.node

\* C9: a key is present in the shard of its owner only.
C9_OnlyOwnerStores ==
  \A n \in Addrs : \A K \in DOMAIN stores[n].hashMap.records : n = OwnerOf(K)

\* C10: the Response that Do returns for a request that it forwarded to the
\* owner is the Response that Do on the owner returns for the request in the
\* same shard state: the same Status, the same Error, the same Record meta
\* and the same Record data, where data that differs only in its JSON
\* representation (a number as float64, a map with string keys) counts as
\* the same.
C10_ForwardedEqualsLocal ==
  (last.node # <<>> /\ last.steady /\ last.hops = 1 /\ last.out # TransportError)
    => /\ last.out.Status = last.ref.Status
       /\ last.out.Error = last.ref.Error
       /\ last.out.Record.Meta = last.ref.Record.Meta
       /\ JSONValue(last.out.Record.Data) = JSONValue(last.ref.Record.Data)

\* C11: Do returns Status 200 with an empty Error exactly when the request
\* was processed without error; otherwise Error is the text of the error, not
\* empty, and Status is 404 for ErrMissing, 409 for ErrConflict, 500 for
\* ErrInternal and 500 for any other error, a transport failure of the
\* forwarded request among them.
C11_StatusOfError ==
  last.node # <<>> =>
    /\ last.out.Status = 200 <=> last.err.kind = "nil"
    /\ last.out.Error = NoText <=> last.err.kind = "nil"
    /\ last.err.kind # "nil" =>
         /\ last.out.Error = last.err.text
         /\ last.out.Error.msg # ""
         /\ last.out.Status = (CASE last.err.kind = "ErrMissing" -> 404
                                 [] last.err.kind = "ErrConflict" -> 409
                                 [] OTHER -> 500)

\* Do has returned Status 500 and the text of the transport error for a
\* request that it forwarded to a peer whose process had ended.
C11_Witness ==
  /\ last.node # <<>>
  /\ last.err = TransportFailure
  /\ last.out.Status = 500
  /\ last.out.Error.msg = "EOF"
  /\ Hash(last.req) # <<>>

\* Start of node n has returned, with an error or without.
StartReturned(n) == srv[n].pc \in {"insert", "started", "failed", "crashed"}

\* C12: if a neighbor could not be dialed after all its retries, Start
\* returns an error, and no peer channel that was opened during that Start is
\* open when Start has returned, whatever the order of the dials; Start
\* returns an error in this case only.
C12_FailedStartClosesAll ==
  \A n \in Addrs :
    /\ (StartReturned(n) /\ \E ii \in DOMAIN srv[n].dials : srv[n].dials[ii].state = "failed")
         => /\ srv[n].pc = "failed"
            /\ \A i \in DOMAIN srv[n].nodes : srv[n].nodes[i].Conn # "open"
    /\ srv[n].pc = "failed" =>
         \E ii \in DOMAIN srv[n].dials :
           /\ srv[n].dials[ii].state = "failed"
           /\ srv[n].dials[ii].retries = NumRetries

\* Start of node "1" has returned an error after its second dial succeeded
\* and its first failed, and the channel that it had opened is closed.
C12_Witness ==
  /\ srv[<<49>>].pc = "failed"
  /\ srv[<<49>>].dials[1].state = "failed"
  /\ srv[<<49>>].dials[2].state = "ok"
  /\ srv[<<49>>].nodes[2].Conn = "closed"
  /\ srv[<<49>>].nodes[1].Conn = "nil"

\* No process has ended and no server was stopped.
NoFault ==
  \A n \in Addrs :
    /\ srv[n].pc # "crashed"
    /\ \A i \in DOMAIN srv[n].nodes : srv[n].nodes[i].Conn # "closed"

\* C13: the Store requests for key K given to Do on any nodes are applied on
\* the shard of the owner one at a time: when n Stores on the absent key have
\* returned, with no Delete and no failure, the Index values of their
\* responses are exactly 1..n and the owner holds the record with the Data of
\* the response with Index n (data compared as JSON carries it).
C13_StoresSerialized ==
  (/\ calls = <<>>
   /\ NoFault
   /\ last.hist # <<>>
   /\ \A i \in DOMAIN last.hist :
        last.hist[i].Action = "store" /\ last.hist[i].Status = 200)
    => /\ {last.hist[i].Index : i \in DOMAIN last.hist} = 1..Len(last.hist)
       /\ Present(OwnerOf(ClusterKey), ClusterKey)
       /\ \E i \in DOMAIN last.hist :
            /\ last.hist[i].Index = Len(last.hist)
            /\ JSONValue(last.hist[i].Data)
                 = JSONValue(Stored(OwnerOf(ClusterKey), ClusterKey).Data)

StoreServedAgain ==
  /\ served' # served
  /\ served'.req.Action = "store"
  /\ served'.req.Key \in DOMAIN stores[Shard].hashMap.records

\* C19: a Store on a key that is already in the hash map does not append the
\* key to the cached key sequence, and the sequence that Keys returns lists
\* every key of the map exactly once.
C19_StoreAppendsOnce ==
  /\ [][StoreServedAgain
         => stores'[Shard].hashMap.keys = stores[Shard].hashMap.keys]_vars
  /\ [][KeysServed =>
         \A k \in DOMAIN stores'[Shard].hashMap.records :
           Cardinality({i \in DOMAIN served'.rec.Data.v :
                          served'.rec.Data.v[i] = k}) = 1]_vars

\* The step is DeleteExpiredKeys(cutoff) run by a goroutine of the timer.
Swept(cutoff) ==
  \E i \in DOMAIN sweepers[Shard] :
    /\ sweepers[Shard][i] = [pc |-> "sweep", cutoff |-> cutoff]
    /\ sweepers'[Shard] = [sweepers[Shard] EXCEPT ![i].pc = "rearm"]

\* The number of places of the heap array arr that hold the entry e.
Entries(arr, e) == Cardinality({j \in DOMAIN arr : arr[j] = e})

\* C20: DeleteExpiredKeys(cutoff) takes out of the heap the entries with
\* Time <= cutoff and no other entry; the key of every entry that left the
\* heap was deleted from the hash map; the entry with the least Time is on
\* top of what remains, and its Time is greater than cutoff.
C20_SweepRemovesDue ==
  [][\A cutoff \in 0..(MaxTime + MaxExpire) :
       Swept(cutoff) =>
         LET arr == stores[Shard].expireHeap
             rest == stores'[Shard].expireHeap
         IN /\ \A j \in DOMAIN arr :
                 Entries(rest, arr[j])
                   = IF arr[j].Time > cutoff THEN Entries(arr, arr[j]) ELSE 0
            /\ \A j \in DOMAIN rest : Entries(arr, rest[j]) > 0
            /\ \A j \in DOMAIN arr :
                 Entries(rest, arr[j]) < Entries(arr, arr[j])
                   => arr[j].Data \notin DOMAIN stores'[Shard].hashMap.records
            /\ \A j \in DOMAIN rest :
                 rest[1].Time <= rest[j].Time /\ rest[1].Time > cutoff]_vars

\* ------------------------------------------------------------------------
\* Properties of the refreshTimer.
\* ------------------------------------------------------------------------
\* C21: AfterFunc(t, fn) called while a timer is pending with a cutoff c,
\* now < c <= t, leaves the cutoff, the pending timer and the function that
\* the timer will run as they are, also when c = t.
C21_SoonerTimerKept ==
  \A t \in 1..(MaxTime + MaxExpire), fn \in {1, 2} :
    \E rt \in {stores[Shard].expireTimer} :
      (rt.timer = "active" /\ now < rt.cutoff /\ rt.cutoff <= t)
        => AfterFunc(rt, t, fn) = [rt |-> rt, blocked |-> FALSE]

\* C22: in every other case (no cutoff yet, the cutoff not after now, or the
\* cutoff after t) AfterFunc(t, fn) returns with the cutoff t and one pending
\* timer that runs fn; the function that the runtime starts is the one of the
\* pending timer, once its time has come, and no other function is started.
C22_Rearmed ==
  /\ [](\A t \in 1..(MaxTime + MaxExpire), fn \in {1, 2} :
          \E rt \in {stores[Shard].expireTimer} :
            (~stores[Shard].blocked
               /\ (rt.cutoff = 0 \/ rt.cutoff <= now \/ rt.cutoff > t))
              => AfterFunc(rt, t, fn)
                   = [rt |-> [timer |-> "active", cutoff |-> t, fn |-> fn],
                      blocked |-> FALSE])
  /\ [][sweepers'[Shard] # sweepers[Shard]
         => \E rt \in {stores[Shard].expireTimer} :
              /\ rt.timer = "active" /\ now >= rt.cutoff
              /\ sweepers'[Shard]
                   = Append(sweepers[Shard], [pc |-> "sweep", cutoff |-> rt.fn])
              /\ stores'[Shard].expireTimer.timer # "active"]_vars

\* The heap entry e stands for the record that the hash map of the shard
\* holds for its key: the record is not permanent and expires at e.Time.
LiveEntry(e) ==
  /\ Present(Shard, e.Data)
  /\ ~IsPermanent(Stored(Shard, e.Data))
  /\ ExpiresAt(Stored(Shard, e.Data)) = e.Time

\* C23: in every state of the shard in which the cutoff of the timer is set,
\* the cutoff is not after the Time of any heap entry of a live record.
C23_CutoffNotAfterLive ==
  stores[Shard].expireTimer.cutoff # 0 =>
    \A j \in DOMAIN stores[Shard].expireHeap :
      LiveEntry(stores[Shard].expireHeap[j])
        => stores[Shard].expireTimer.cutoff <= stores[Shard].expireHeap[j].Time

\* C24: whenever the heap of the shard holds an entry, no function of the
\* timer is running and no call is stuck in the store, a timer is pending
\* that fires no later than the least Time of the heap.
C24_TimerCoversHeap ==
  (/\ stores[Shard].expireHeap # <<>>
   /\ sweepers[Shard] = <<>>
   /\ ~stores[Shard].blocked)
    => /\ stores[Shard].expireTimer.timer = "active"
       /\ \A j \in DOMAIN stores[Shard].expireHeap :
            stores[Shard].expireTimer.cutoff <= stores[Shard].expireHeap[j].Time

\* ------------------------------------------------------------------------
\* Properties of the ring.
\* ------------------------------------------------------------------------
\* C25: a ring of N >= 1 elements has virtual[i] = i mod N for every
\* partition i, and Find returns elements[virtual[h mod P]] for the checksum
\* h of a key; an Insert appends its element, and a Remove that leaves an
\* element in the ring takes out the first element with an equal Value and
\* no other.
C25_RingRepartitioned ==
  /\ [](\E r \in {srv[Shard].ring} :
          Len(r.elements) >= 1 =>
            /\ \A i \in 0..(r.ratio - 1) :
                 r.virtual[i + 1] = i % Len(r.elements)
            /\ \A K \in DOMAIN Fnv32 :
                 Find(r, StringHasher(K))
                   = r.elements[r.virtual[(Fnv32[K] % r.ratio) + 1] + 1])
  /\ [][srv'[Shard].ring.elements # srv[Shard].ring.elements
           /\ srv'[Shard].ring.elements # <<>>
         => \E old \in {srv[Shard].ring.elements} :
              \E v \in 0..2 :
                \/ srv'[Shard].ring.elements = Append(old, [Value |-> v])
                \/ \E i \in DOMAIN old :
                     /\ old[i].Value = v
                     /\ \A j \in 1..(i - 1) : old[j].Value # v
                     /\ srv'[Shard].ring.elements
                          = [j \in 1..(Len(old) - 1) |->
                               IF j < i THEN old[j] ELSE old[j + 1]]]_vars

\* Three Inserts and a Remove have left the elements 0 and 1 in a ring of
\* four partitions.
C25_Witness ==
  /\ ncalls = 3
  /\ srv[Shard].pc = "new"
  /\ srv[Shard].ring.elements = <<[Value |-> 0], [Value |-> 1]>>
  /\ srv[Shard].ring.virtual = <<0, 1, 0, 1>>

\* The 32-bit FNV-1a checksum: xor the byte into the hash, then multiply.
RECURSIVE fnv1a(_, _)
fnv1a(h, b) ==
  IF b = <<>> THEN h
  ELSE fnv1a(mulPrime32(xorByte(h, Head(b))), Tail(b))

\* C26: the checksum that StringHasher computes for the Hash of a request
\* that Do routes is the 32-bit FNV-1a checksum of its bytes, from the offset
\* basis 2166136261 = 33052 * 2^16 + 40389.
C26_HashIsFnv1a ==
  \A c \in DOMAIN calls :
    StringHasher(Hash(calls[c].req)) = fnv1a([hi |-> 33052, lo |-> 40389],
                                              Hash(calls[c].req))

\* ------------------------------------------------------------------------
\* Properties of the access time.
\* ------------------------------------------------------------------------
\* The step is a call of Serve for a Load request that found the record.
LoadServed ==
  /\ served' # served
  /\ served'.req.Action = "load"
  /\ served'.err = NoError

\* C27: a Load of key K that finds the record at time t sets AccessedAt = t
\* in the record that the hash map holds, so that the record which a later
\* Store of K returns carries the time of the most recent Load that found
\* the record.
C27_LoadStampsStored ==
  /\ [][LoadServed
         => stores'[Shard].hashMap.records[served'.req.Key].Meta.AccessedAt
              = served'.at]_vars
  /\ [][(served' # served /\ served'.req.Action = "store"
            /\ served.req.Action = "load" /\ served.err = NoError
            /\ served.req.Key = served'.req.Key /\ served.node # <<>>
            /\ Present(Shard, served.req.Key))
         => served'.rec.Meta.AccessedAt = served.at]_vars

\* C28: a Load of key K that follows a Store of K returns a record whose
\* AccessedAt is the time of the Load: it is not zero, not before UpdatedAt,
\* and after UpdatedAt when the clock advanced since the Store.
C28_LoadReturnsAccessTime ==
  [][LoadServed =>
       /\ served'.rec.Meta.AccessedAt = served'.at
       /\ served'.rec.Meta.AccessedAt # 0
       /\ served'.rec.Meta.AccessedAt >= served'.rec.Meta.UpdatedAt
       /\ served'.at > served'.prev.Meta.UpdatedAt
            => served'.rec.Meta.AccessedAt > served'.rec.Meta.UpdatedAt
       /\ served'.rec.Meta.UpdatedAt = served'.prev.Meta.UpdatedAt]_vars

\* A Load has returned the record of "a" with an AccessedAt after the
\* UpdatedAt of its Store.
C28_Witness ==
  /\ served.node # <<>>
  /\ served.req = RequestLoad(<<97>>)
  /\ served.err = NoError
  /\ served.prev.Meta.Index > 0
  /\ served.rec.Meta.AccessedAt = served.at
  /\ served.rec.Meta.AccessedAt > served.rec.Meta.UpdatedAt

\* C29: every envelope that a peer handler reads gets a Response, also when
\* its action is unknown: no roundTrip is left waiting, node.mu held, for
\* an envelope that the handler has read and passed over, and the step in
\* which a handler reads an envelope starts the run of Do whose Response
\* it will write.
C29_EveryEnvelopeAnswered ==
  /\ [](\A c \in DOMAIN calls : \A j \in DOMAIN calls[c].frames :
         calls[c].frames[j].pc # "read")
  /\ [][\A c \in DOMAIN calls :
         LET k == Len(calls[c].frames)
         IN (/\ calls[c].frames[k].pc = "sent"
             /\ c \in DOMAIN calls'
             /\ calls'[c].node = calls[c].node
             /\ Len(calls'[c].frames) >= k
             /\ calls'[c].frames[k] # calls[c].frames[k])
              => \/ Len(calls'[c].frames) = k + 1
                 \/ calls'[c].frames[k].pc = "done"]_vars

\* The round trips of node n under way on its channel to the node at a.
RoundTrips(n, a) ==
  {cj \in UNION {{<<c, j>> : j \in DOMAIN calls[c].frames} : c \in DOMAIN calls} :
     LET c == cj[1]
         j == cj[2]
     IN
     /\ calls[c].frames[j].node = n
     /\ calls[c].frames[j].to = a
     /\ calls[c].frames[j].pc \in {"sent", "read"}}

\* C30: the round trips of one node on the channel to one peer do not
\* overlap: at most one is under way between the write of its request and
\* the read of its response, the handler at the other end runs Do for the
\* request of that round trip, and the Response that a round trip reads is
\* the one that this run of Do returned.
C30_RoundTripsDoNotOverlap ==
  /\ [](\A n \in Addrs, a \in Addrs : Cardinality(RoundTrips(n, a)) <= 1)
  /\ [](\A c \in DOMAIN calls : \A j \in DOMAIN calls[c].frames :
         j > 1 => /\ calls[c].frames[j].node = calls[c].frames[j - 1].to
                  /\ calls[c].frames[j].req = WireRequest(calls[c].frames[j - 1].req)
                  /\ calls[c].frames[j - 1].pc = "sent")
  /\ [][\A c \in DOMAIN calls :
         LET k == Len(calls[c].frames)
         IN (/\ k > 1
             /\ srv' = srv
             /\ Len(calls') = Len(calls)
             /\ Len(calls'[c].frames) = k - 1)
              => /\ calls[c].frames[k].pc = "done"
                 /\ calls'[c].frames[k - 1].pc = "done"
                 /\ calls'[c].frames[k - 1].req = calls[c].frames[k - 1].req
                 /\ calls'[c].frames[k - 1].resp
                      = WireResponse(calls[c].frames[k].resp)]_vars

\* Two calls of Do on one node for the key of the same peer: the first has
\* returned the Response to its Store, the second is in its round trip.
C30_Witness ==
  /\ ncalls = 2
  /\ last.hops = 1
  /\ last.req.Action = "store"
  /\ last.out.Status = 200
  /\ \E c \in DOMAIN calls :
       /\ calls[c].node = last.node
       /\ calls[c].req.Action = "delete"
       /\ RoundTrips(last.node, OwnerOf(Hash(last.req))) = {<<c, 1>>}

\* The waits of join before its first n retries: 1 s, then twice the wait
\* before.
Backoffs(n) == [i \in 1..n |-> 2 ^ (i - 1)]

\* C31: join makes one dial and at most NumRetries more, returns the
\* connection on the first dial that succeeds, has waited 1 s, 2 s, 4 s, ...
\* before its retries and not after the last failed dial, and fails only
\* when NumRetries + 1 dials have failed.
C31_JoinBackoff ==
  /\ [](\A ii \in DOMAIN srv[Shard].dials :
         LET d == srv[Shard].dials[ii]
         IN /\ d.state = "dialing" => d.retries <= d.limit /\ d.slept = Backoffs(d.retries)
            /\ d.state = "ok" => d.retries <= d.limit /\ d.slept = Backoffs(d.retries)
            /\ d.state = "failed" => d.retries = d.limit + 1 /\ d.slept = Backoffs(d.limit))
  /\ [][\A ii \in DOMAIN srv[Shard].dials :
         LET d == srv[Shard].dials[ii]
             e == srv'[Shard].dials[ii]
         IN /\ e.state = "ok" /\ d.state # "ok"
               => d.state = "dialing" /\ e.retries = d.retries /\ e.slept = d.slept
            /\ d.state # "dialing" => e = d
            /\ e.retries \in {d.retries, d.retries + 1}]_vars

\* With NumRetries = 2 one join has failed after three dials and waits of
\* 1 s and 2 s, the other has returned a connection from its third dial.
C31_Witness ==
  \E ii, jj \in DOMAIN srv[Shard].dials :
    /\ srv[Shard].dials[ii] = [state |-> "failed", retries |-> 3, backoff |-> 8,
                               limit |-> 2, slept |-> <<1, 2>>]
    /\ srv[Shard].dials[jj].state = "ok"
    /\ srv[Shard].dials[jj].retries = 2
    /\ srv[Shard].dials[jj].slept = <<1, 2>>

\* C32: a handler runs Do on a node only after Start of that node has
\* completed, and the node set and the ring of a node whose Start has
\* completed do not change.
C32_NoDoBeforeStart ==
  /\ [][\A c \in DOMAIN calls :
         (/\ Len(calls') = Len(calls)
          /\ Len(calls'[c].frames) > Len(calls[c].frames))
           => srv[calls'[c].frames[Len(calls'[c].frames)].node].pc = "started"]_vars
  /\ [][\A n \in Addrs :
         (srv[n].pc = "started" /\ srv'[n].pc = "started")
           => /\ [i \in DOMAIN srv'[n].nodes |-> srv'[n].nodes[i].Addr]
                  = [i \in DOMAIN srv[n].nodes |-> srv[n].nodes[i].Addr]
              /\ srv'[n].ring = srv[n].ring]_vars

\* C33: no operation of a shard waits inside the re-arming of the timer
\* while it holds worldMu, so that every operation that takes worldMu
\* releases it.
C33_MutexReleased == \A n \in Addrs : ~stores[n].blocked

\* The step is a call of Serve for a Load request that found the record of
\* its key expired.
LoadServedExpired ==
  /\ served' # served
  /\ served'.req.Action = "load"
  /\ served'.prev.Meta.Index > 0
  /\ IsExpired(served'.prev, served'.at)

\* C34: a Load that finds the record of K expired deletes K from the hash
\* store and reports it not-present; Keys does not return a key that is
\* not in the hash store; and a Store of a key that is not in the hash store
\* creates a record with Index 1 whose CreatedAt is the time of that Store.
C34_ExpiredLoadDeletes ==
  /\ [][LoadServedExpired
         => /\ served'.err = ErrMissing("%s does not exist", served'.req.Key)
            /\ served'.rec = RecordZero
            /\ served'.req.Key \notin DOMAIN stores'[Shard].hashMap.records
            /\ stores'[Shard].hashMap.dirty]_vars
  /\ [][KeysServed
         => \A i \in DOMAIN served'.rec.Data.v :
              served'.rec.Data.v[i] \in DOMAIN stores'[Shard].hashMap.records]_vars
  /\ [][\A K \in KeySet :
         (~Present(Shard, K) /\ K \in DOMAIN stores'[Shard].hashMap.records)
           => /\ stores'[Shard].hashMap.records[K].Meta.Index = 1
              /\ stores'[Shard].hashMap.records[K].Meta.CreatedAt = now]_vars

\* A Load at time 3 has found the record of "a", stored at time 1 with
\* ExpireTime 1, expired before its timer has fired: "a" has left the hash
\* store and the Load has reported it missing.
C34_Witness ==
  /\ served.req.Action = "load"
  /\ served.at = 3
  /\ served.prev.Meta.CreatedAt = 1
  /\ served.prev.Meta.ExpireTime = 1
  /\ served.err.kind = "ErrMissing"
  /\ ~Present(Shard, served.req.Key)
  /\ stores[Shard].hashMap.dirty
  /\ stores[Shard].expireTimer.timer = "active"

\* C35: a Do whose context was cancelled while its forwarded request
\* waited on the peer channel returns an error Response, and no cancelled
\* Do is left waiting for an envelope that the peer has passed over.
C35_CancelledDoFails ==
  /\ last.cancelled => last.out.Status # 200 /\ last.out.Error # NoText
  /\ \A c \in DOMAIN calls :
       calls[c].cancelled => calls[c].frames[1].pc # "read"

\* C36: a Store that leaves a record with ExpireTime > 0 adds exactly one
\* entry to the heap, (CreatedAt + ExpireTime, key), and a timer that was
\* never armed is armed for that time; a Store that leaves a permanent
\* record changes neither the heap nor the timer and its cutoff.
C36_StorePushesOnce ==
  [][nstores' = nstores + 1 =>
       \E K \in DOMAIN stores'[Shard].hashMap.records :
         LET rec == stores'[Shard].hashMap.records[K]
             arr == stores[Shard].expireHeap
             new == stores'[Shard].expireHeap
             e == [Time |-> rec.Meta.CreatedAt + rec.Meta.ExpireTime, Data |-> K]
         IN /\ rec.Meta.Index = IF Present(Shard, K) THEN Stored(Shard, K).Meta.Index + 1
                                 ELSE 1
            /\ IF rec.Meta.ExpireTime > 0
                 THEN /\ Len(new) = Len(arr) + 1
                      /\ Entries(new, e) = Entries(arr, e) + 1
                      /\ \A j \in DOMAIN arr : Entries(new, arr[j]) >= Entries(arr, arr[j])
                      /\ stores[Shard].expireTimer = newRefreshTimer
                           => stores'[Shard].expireTimer
                                = [timer |-> "active", cutoff |-> e.Time, fn |-> e.Time]
               ELSE /\ new = arr
                    /\ stores'[Shard].expireTimer = stores[Shard].expireTimer]_vars

\* The first Store, of "a" with ExpireTime 2 at time 1, has put the entry
\* (3, "a") on the heap and armed the timer for time 3.
C36_Witness ==
  /\ nstores = 1
  /\ served.req.Action = "store"
  /\ served.rec.Meta.CreatedAt = 1
  /\ served.rec.Meta.ExpireTime = 2
  /\ stores[Shard].expireHeap = <<[Time |-> 3, Data |-> <<97>>]>>
  /\ stores[Shard].expireTimer = [timer |-> "active", cutoff |-> 3, fn |-> 3]

\* The request last served was a Store, with ExpireTime d > 0, of a key whose
\* record was created more than d before that Store.
StoredPastExpiry ==
  /\ served.req.Action = "store"
  /\ served.req.ExpireTime > 0
  /\ served.prev.Meta.Index > 0
  /\ served.at - served.prev.Meta.CreatedAt > served.req.ExpireTime

\* C37: a Store of K with ExpireTime d > 0, made more than d after the
\* record of K was created, keeps CreatedAt and returns a record that is
\* expired, and a Load of K that follows it at once reports K not-present.
C37_ExpiryFromCreation ==
  /\ [](StoredPastExpiry
         => /\ served.rec.Meta.CreatedAt = served.prev.Meta.CreatedAt
            /\ served.rec.Meta.UpdatedAt >= served.at
            /\ served.rec.Meta.Index = served.prev.Meta.Index + 1
            /\ IsExpired(served.rec, served.rec.Meta.UpdatedAt))
  /\ [][(/\ StoredPastExpiry
          /\ served' # served
          /\ served'.req.Action = "load"
          /\ served'.req.Key = served.req.Key)
           => /\ served'.at - served.rec.Meta.UpdatedAt < served.req.ExpireTime
              /\ served'.err = ErrMissing("%s does not exist", served.req.Key)
              /\ served'.req.Key \notin DOMAIN stores'[Shard].hashMap.records]_vars

\* A Load of "a" at time 3 has reported it missing: its record, created at
\* time 1, had been stored again at time 3 with ExpireTime 1.
C37_Witness ==
  /\ served.req.Action = "load"
  /\ served.at = 3
  /\ served.err.kind = "ErrMissing"
  /\ served.prev.Meta.CreatedAt = 1
  /\ served.prev.Meta.UpdatedAt = 3
  /\ served.prev.Meta.ExpireTime = 1
  /\ served.prev.Meta.Index = 2

\* What the claims call stored of a record: all but AccessedAt.
StoredPart(rec) == [rec EXCEPT !.Meta.AccessedAt = 0]

\* C38: a Load, ListIndex or DictItem that finds a record which is not
\* expired, and every Keys, leaves Data, Index, CreatedAt, UpdatedAt and
\* ExpireTime of every key, the key set, the heap and the timer as they
\* were, whatever it returns.
C38_ReadsChangeNothing ==
  [][(/\ served' # served
      /\ \/ served'.req.Action = "keys"
         \/ served'.req.Action \in ReadActions /\ ServedPresent')
       => /\ DOMAIN stores'[Shard].hashMap.records = DOMAIN stores[Shard].hashMap.records
          /\ \A K \in DOMAIN stores[Shard].hashMap.records :
               StoredPart(stores'[Shard].hashMap.records[K])
                 = StoredPart(stores[Shard].hashMap.records[K])
          /\ stores'[Shard].expireHeap = stores[Shard].expireHeap
          /\ stores'[Shard].expireTimer = stores[Shard].expireTimer
          /\ sweepers' = sweepers]_vars

\* A ListIndex has returned the first element of the list stored under "a",
\* which is stored as before.
C38_Witness ==
  /\ served.req.Action = "index"
  /\ served.err = NoError
  /\ served.rec.Data = IntVal(1)
  /\ Present(Shard, served.req.Key)
  /\ Stored(Shard, served.req.Key).Data = IntSlice(<<1, 2>>)
  /\ Stored(Shard, served.req.Key).Meta = [served.rec.Meta EXCEPT !.AccessedAt = 0]

\* C39: with the same node set on every node a request is forwarded at most
\* once: a round trip goes to the owner of the key and is the first run of
\* Do of its call, the handler of the owner serves the request on its own
\* shard without a round trip of its own, so that every round trip under
\* way waits for a node that can answer without waiting for a mutex.
C39_ForwardedOnce ==
  /\ last.hops <= 1
  /\ \A c \in DOMAIN calls :
       /\ calls[c].hops <= 1
       /\ Len(calls[c].frames) <= 2
       /\ \A j \in DOMAIN calls[c].frames :
            LET f == calls[c].frames[j]
            IN /\ f.pc = "sent"
                  => /\ j = 1
                     /\ Hash(f.req) # <<>>
                     /\ f.to = OwnerOf(Hash(f.req))
                     /\ f.node # f.to
                     /\ srv[f.to].pc = "started"
               /\ j = 2
                  => /\ f.node = OwnerOf(Hash(f.req))
                     /\ f.pc = "done"
                     /\ f.to = <<>>
                     /\ f.err # TransportFailure

\* Two calls on the two nodes that do not own the key are under way at once:
\* the handler of the owner has served the Store of the one on its shard,
\* the round trip of the other waits for the owner.
C39_Witness ==
  /\ Len(calls) = 2
  /\ calls[1].node # calls[2].node
  /\ Len(calls[1].frames) = 2
  /\ calls[1].hops = 1
  /\ calls[1].req.Action = "store"
  /\ calls[1].frames[2].resp.Status = 200
  /\ Present(OwnerOf(ClusterKey), ClusterKey)
  /\ calls[2].frames = <<Frame(calls[2].node, calls[2].req, "sent", OwnerOf(ClusterKey),
                               ResponseZero, ResponseZero, NoError)>>

\* What heap.Pop returns, call after call, until the heap is empty.
RECURSIVE Drain(_)
Drain(arr) ==
  IF arr = <<>> THEN <<>>
  ELSE <<heapPop(arr).val>> \o Drain(heapPop(arr).arr)

\* C40: what was pushed with heap.Push comes out of heap.Pop in
\* non-decreasing order of Time, every element once, and the heap is empty
\* after as many pops as it holds elements; one pop takes an element of
\* the least Time and leaves the others.
C40_HeapPopsInOrder ==
  /\ [](LET arr == stores[Shard].expireHeap
            out == Drain(arr)
        IN /\ Len(out) = Len(arr)
           /\ \A i, j \in DOMAIN out : i < j => out[i].Time <= out[j].Time
           /\ \A i \in DOMAIN arr : Entries(out, arr[i]) = Entries(arr, arr[i]))
  /\ [][Len(stores'[Shard].expireHeap) < Len(stores[Shard].expireHeap)
         => LET arr == stores[Shard].expireHeap
                new == stores'[Shard].expireHeap
                val == heapPop(arr).val
            IN /\ Len(new) = Len(arr) - 1
               /\ \A i \in DOMAIN arr : val.Time <= arr[i].Time
               /\ Entries(new, val) = Entries(arr, val) - 1
               /\ \A i \in DOMAIN new : Entries(new, new[i]) <= Entries(arr, new[i])]_vars

\* The heap of TestTimeHeap: pushed at times 1, 3 and 2 in this order, the
\* elements come out as 1, 2, 3.
C40_Witness ==
  /\ stores[Shard].expireHeap
       = <<[Time |-> 1, Data |-> <<97>>], [Time |-> 3, Data |-> <<98>>],
           [Time |-> 2, Data |-> <<97>>]>>
  /\ Drain(stores[Shard].expireHeap)
       = <<[Time |-> 1, Data |-> <<97>>], [Time |-> 2, Data |-> <<97>>],
           [Time |-> 3, Data |-> <<98>>]>>

====
